---- MODULE Spec2Model ----
(***************************************************************************)
(* Model of the user aggregate API of src/src/routes/users.js over the    *)
(* five-table MySQL schema of the create-tables endpoint.                  *)
(*                                                                         *)
(* Every request handler is a process that suspends at each awaited        *)
(* storage call.  One action is one awaited call: the effect of the        *)
(* statement on the store together with the handler code that runs until   *)
(* the next await.  Every storage call can also fail.                      *)
(*                                                                         *)
(* JavaScript scalars are written as their literal text ("undefined",      *)
(* "false", "0", "1", ...); objects (payloads, rows) are records, with     *)
(* NULL and UNDEFINED as two distinguished records.                        *)
(***************************************************************************)
EXTENDS Integers, Sequences, FiniteSets, TLC

\* ------------------------------------------------------------------ bounds
MaxRandom == 1       \* Math.floor(Math.random() * 1000) takes 0..MaxRandom
MaxBatch == 2        \* longest users array of a bulk request

\* ------------------------------------------------------- program constants
maxAttempts == 10

Procs == {"h1", "h2"}

UNDEF == "undefined"
UNDEFINED == [undefined |-> TRUE]
NULL == [null |-> TRUE]

\* !v for a scalar, and the truthiness of an object-or-undefined value
Falsy(v) == v \in {"undefined", "null", "false", "0", ""}
Truthy(o) == o # UNDEFINED /\ o # NULL

\* a || b
Or(a, b) == IF Falsy(a) THEN b ELSE a

\* values of a JSON body and bound parameters: texts and numbers
Str(v) == [str |-> v]
Num(n) == [num |-> n]
ValueOf(b) == IF DOMAIN b = {"num"} THEN b.num ELSE b.str

\* value a BOOLEAN (TINYINT(1)) column keeps for a bound true/false/1/0
ToTinyInt(v) == IF v \in {"true", "1"} THEN 1 ELSE 0

\* variant: the time is scaled by 100 only
generateRandomIdNarrow(now, rnd) == now * 100 + rnd

\* Date.now() * 1000 + Math.floor(Math.random() * 1000), rnd being the floor
generateRandomId(now, rnd) == now * 1000 + rnd

\* Date.now(): the calls read the clock within one millisecond, the only case
\* in which two candidates can be equal
Times == {1}
Offsets == 0..MaxRandom
Ids == {generateRandomId(t, r) : t \in Times, r \in Offsets}

SubTables == {"user_accounts", "user_addresses", "user_preferences", "user_profiles"}

\* Error objects: the code property and the message
NoErr == [code |-> "none", message |-> "none"]
\* what a failing storage call rejects with (a driver error, not a duplicate)
FailErrs == {[code |-> "ECONNRESET", message |-> "storage"]}
DupEntry == [code |-> "ER_DUP_ENTRY", message |-> "duplicate"]
\* new Error(...) thrown by the handlers: no code property
ExhaustedErr == [code |-> UNDEF, message |-> "Failed to generate unique ID after multiple attempts"]
\* new Error(...) thrown by the connection provider without a pool
AllFailedErr == [code |-> UNDEF, message |-> "All database connection methods failed"]
NoConnectionErr == [code |-> UNDEF, message |-> "Failed to get database connection"]

VARIABLES
  users,      \* committed rows of table users
  subs,       \* committed rows of the four sub-record tables, by table name
  pendUsers,  \* uncommitted users rows of the transaction on p's session
  pendSubs,   \* uncommitted sub-record rows of that transaction
  inTxn,      \* p's session has an open transaction
  didCommit,  \* history: the COMMIT of p's transaction succeeded
  acquired,   \* sessions p obtained from pool.getConnection
  released,   \* calls of connection.release by p
  pc,         \* the await p is suspended at
  op,         \* the route p is serving
  req,        \* req.body / req.params of the request
  userId,     \* local userId
  attempts,   \* local attempts
  idx,        \* position of the bulk loop in req.body.users
  err,        \* code of the error caught / thrown
  status,     \* HTTP status sent, 0 while none
  res,        \* response body
  clock,      \* the clock of the store, NOW()
  isConnected,\* database.js: let isConnected
  pool,       \* database.js: let pool, the connection method whose pool is
              \* installed, 0 while none is
  method,     \* dbExports.execute: position in connectionMethods, 0 outside
  submitted   \* history: times p's write statement reached the store

store == <<users, subs>>
txn == <<pendUsers, pendSubs, inTxn, didCommit>>
session == <<acquired, released>>
locals == <<userId, attempts, idx>>
env == <<clock, isConnected, pool, method, submitted>>
vars == <<users, subs, pendUsers, pendSubs, inTxn, didCommit, acquired, released,
          pc, op, req, userId, attempts, idx, err, status, res,
          clock, isConnected, pool, method, submitted>>

NoRows == [t \in SubTables |-> {}]
NoReq == [none |-> TRUE]
NoRes == [none |-> TRUE]

Init ==
  /\ users = {}
  /\ subs = NoRows
  /\ pendUsers = [p \in Procs |-> {}]
  /\ pendSubs = [p \in Procs |-> NoRows]
  /\ inTxn = [p \in Procs |-> FALSE]
  /\ didCommit = [p \in Procs |-> FALSE]
  /\ acquired = [p \in Procs |-> 0]
  /\ released = [p \in Procs |-> 0]
  /\ pc = [p \in Procs |-> "idle"]
  /\ op = [p \in Procs |-> "none"]
  /\ req = [p \in Procs |-> NoReq]
  /\ userId = [p \in Procs |-> 0]
  /\ attempts = [p \in Procs |-> 0]
  /\ idx = [p \in Procs |-> 0]
  /\ err = [p \in Procs |-> NoErr]
  /\ status = [p \in Procs |-> 0]
  /\ res = [p \in Procs |-> NoRes]
  /\ clock = 1
  /\ isConnected = TRUE
  /\ pool = 1
  /\ method = [p \in Procs |-> 0]
  /\ submitted = [p \in Procs |-> 0]

\* ------------------------------------------------------------------ inputs
NoAccount == [status |-> UNDEF, role |-> UNDEF, subscription |-> UNDEF]
NoPreferences == [language |-> UNDEF, timezone |-> UNDEF, notify_email |-> UNDEF,
                  notify_sms |-> UNDEF, notify_push |-> UNDEF]
AnAddress == [street |-> "Jl. Sudirman 1", city |-> "Jakarta", province |-> "DKI Jakarta",
              postal_code |-> "10110", country |-> "Indonesia"]
AProfile == [avatar |-> "a.png", bio |-> "bio", website |-> "w.io",
             instagram |-> "@a", linkedin |-> "in/a"]

\* username/email pairs of the request bodies: two users (a body repeated by
\* another request collides on both columns) and a body without username
CoreInputs ==
  { [username |-> "alice", email |-> "a@x.io"],
    [username |-> "bob",   email |-> "b@x.io"],
    [username |-> UNDEF,   email |-> "c@x.io"] }

\* which sub-record payloads a createUser body carries
Shapes ==
  { [account |-> UNDEFINED, address |-> UNDEFINED, preferences |-> UNDEFINED, profile |-> UNDEFINED],
    [account |-> NoAccount, address |-> AnAddress, preferences |-> NoPreferences, profile |-> AProfile] }

Body(c, s) == [username |-> c.username, email |-> c.email, account |-> s.account,
               address |-> s.address, preferences |-> s.preferences, profile |-> s.profile]


\* ---------------------------------------------------------- the statements
\* INSERT INTO users (id, username, email, ...): by names the handler whose
\* statement wrote the row (history, not a column)
UserRow(p, id, c) == [id |-> id, username |-> c.username, email |-> c.email, by |-> p]

\* the same history field on a sub-record row
Owned(r, p) == [f \in DOMAIN r \cup {"by"} |-> IF f = "by" THEN p ELSE r[f]]

\* variant: a users table without the PRIMARY KEY on id
DupAgainstNoPrimaryKey(row, rows) ==
  \E u \in rows : u.username = row.username \/ u.email = row.email

\* PRIMARY KEY (id), UNIQUE (username), UNIQUE (email)
DupAgainst(row, rows) ==
  \E u \in rows : u.id = row.id \/ u.username = row.username \/ u.email = row.email

\* rows other open transactions hold locked
OthersPending(p) == UNION {pendUsers[q] : q \in Procs \ {p}}

\* variant: the account fields bound as given, like the address fields
AccountRowNoDefaults(id, account) ==
  [user_id |-> id, status |-> account.status, role |-> account.role,
   subscription |-> account.subscription]

AccountRow(id, account) ==
  [user_id |-> id,
   status |-> Or(account.status, "active"),
   role |-> Or(account.role, "user"),
   subscription |-> Or(account.subscription, "free")]

AddressRow(id, address) ==
  [user_id |-> id, street |-> address.street, city |-> address.city,
   province |-> address.province, postal_code |-> address.postal_code,
   country |-> address.country]

PreferencesRow(id, preferences) ==
  [user_id |-> id,
   language |-> Or(preferences.language, "en"),
   timezone |-> Or(preferences.timezone, "Asia/Jakarta"),
   notify_email |-> ToTinyInt(Or(preferences.notify_email, "1")),
   notify_sms |-> ToTinyInt(Or(preferences.notify_sms, "0")),
   notify_push |-> ToTinyInt(Or(preferences.notify_push, "1"))]

ProfileRow(id, profile) ==
  [user_id |-> id, avatar |-> profile.avatar, bio |-> profile.bio,
   website |-> profile.website, instagram |-> profile.instagram,
   linkedin |-> profile.linkedin]

\* variant: a middleware without the ER_DUP_ENTRY branch
ErrorStatusNoDuplicateBranch(e) ==
  IF e.code = "ER_NO_REFERENCED_ROW_2" THEN 400 ELSE 500

\* router.use error middleware: the status an error leaves the router with
ErrorStatus(e) ==
  IF e.code = "ER_DUP_ENTRY" THEN 409
  ELSE IF e.code = "ER_NO_REFERENCED_ROW_2" THEN 400
  ELSE 500

\* what a call of the provider rejects with: the error of the pool when
\* pool && isConnected (isConnected is true only with a pool), or the
\* error thrown after the loop over connectionMethods has caught every other
ProviderErrs(afterLoop) == IF isConnected THEN FailErrs ELSE {afterLoop}

\* --------------------------------------------------------- handler plumbing
Goto(p, l) == pc' = [pc EXCEPT ![p] = l]

\* control leaves the block that declares userId, attempts and the loop
\* variable
EndScope(p) ==
  /\ userId' = [userId EXCEPT ![p] = 0]
  /\ attempts' = [attempts EXCEPT ![p] = 0]
  /\ idx' = [idx EXCEPT ![p] = 0]

\* res.status(st).json(...) and the handler returns
Respond(p, st) ==
  /\ status' = [status EXCEPT ![p] = st]
  /\ pc' = [pc EXCEPT ![p] = "done"]
  /\ EndScope(p)

\* an error that leaves the handler: asyncHandler passes it to the middleware
Reject(p, e) ==
  /\ err' = [err EXCEPT ![p] = e]
  /\ Respond(p, ErrorStatus(e))

\* an error thrown inside the try block: the catch block awaits rollback
Throw(p, e) ==
  /\ err' = [err EXCEPT ![p] = e]
  /\ Goto(p, "rollback")
  /\ EndScope(p)

\* connection.release()
Release(p) == released' = [released EXCEPT ![p] = @ + 1]

\* where createUser awaits next after the insert it has just done
AfterPreferences(b) == IF Truthy(b.profile) THEN "user_profiles" ELSE "commit"
AfterAddress(b) == IF Truthy(b.preferences) THEN "user_preferences" ELSE AfterPreferences(b)
AfterAccount(b) == IF Truthy(b.address) THEN "user_addresses" ELSE AfterAddress(b)
\* variant: the account insert is left out
AfterUsersSkipsAccount(b) == AfterAccount(b)

AfterUsers(b) == IF Truthy(b.account) THEN "user_accounts" ELSE AfterAccount(b)

\* variant: the bound is tested against the count before the increment
ReserveNextLateBound(p, att, i) ==
  IF att > maxAttempts
    THEN Throw(p, ExhaustedErr)
    ELSE /\ \E now \in Times, rnd \in Offsets :
              userId' = [userId EXCEPT ![p] = generateRandomId(now, rnd)]
         /\ attempts' = [attempts EXCEPT ![p] = att + 1]
         /\ idx' = [idx EXCEPT ![p] = i]
         /\ err' = err
         /\ Goto(p, "isIdExists")

\* one pass of the do-while body up to its await, in loop iteration i of the
\* bulk handler (0 in createUser): att is attempts before the pass
ReserveNext(p, att, i) ==
  IF att + 1 > maxAttempts
    THEN Throw(p, ExhaustedErr)
    ELSE /\ \E now \in Times, rnd \in Offsets :
              userId' = [userId EXCEPT ![p] = generateRandomId(now, rnd)]
         /\ attempts' = [attempts EXCEPT ![p] = att + 1]
         /\ idx' = [idx EXCEPT ![p] = i]
         /\ err' = err
         /\ Goto(p, "isIdExists")

\* isIdExists: SELECT id FROM users WHERE id = ? on p's session sees the
\* committed rows and the rows of its own transaction
isIdExists(p, id) == \E u \in users \cup pendUsers[p] : u.id = id

\* ------------------------------------------------ POST /users (createUser)
\* variant: only the username is required
StartCreateUserUsernameOnly(p, inputs) ==
  /\ pc[p] = "idle"
  /\ \E b \in inputs :
       /\ op' = [op EXCEPT ![p] = "createUser"]
       /\ req' = [req EXCEPT ![p] = b]
       /\ IF Falsy(b.username)
            THEN Respond(p, 400)
            ELSE Goto(p, "getConnection") /\ UNCHANGED <<status, userId, attempts, idx>>
  /\ UNCHANGED <<store, txn, session, err, res>>
  /\ UNCHANGED env

\* the destructuring of req.body and the validation of the required fields
StartCreateUser(p, inputs) ==
  /\ pc[p] = "idle"
  /\ \E b \in inputs :
       /\ op' = [op EXCEPT ![p] = "createUser"]
       /\ req' = [req EXCEPT ![p] = b]
       /\ IF Falsy(b.username) \/ Falsy(b.email)
            THEN Respond(p, 400)
            ELSE Goto(p, "getConnection") /\ UNCHANGED <<status, userId, attempts, idx>>
  /\ UNCHANGED <<store, txn, session, err, res>>
  /\ UNCHANGED env

\* POST /users arrives at an idle handler, with the bodies of CoreInputs and
\* a body whose email is the empty string
CreateUser(p) ==
  /\ pc[p] = "idle"
  /\ LET cores == CoreInputs \cup {[username |-> "carol", email |-> ""]}
     IN StartCreateUser(p, {Body(c, s) : c \in cores, s \in Shapes})

CreateGetConnection(p) ==
  /\ pc[p] = "getConnection" /\ op[p] = "createUser"
  /\ \/ /\ acquired' = [acquired EXCEPT ![p] = @ + 1]
        /\ Goto(p, "beginTransaction")
        /\ UNCHANGED <<err, status, userId, attempts, idx>>
     \/ /\ \E e \in ProviderErrs(NoConnectionErr) : Reject(p, e)
        /\ UNCHANGED acquired
  /\ UNCHANGED <<store, txn, released, op, req, res>>
  /\ UNCHANGED env

CreateBegin(p) ==
  /\ pc[p] = "beginTransaction" /\ op[p] = "createUser"
  /\ \/ /\ inTxn' = [inTxn EXCEPT ![p] = TRUE]
        /\ ReserveNext(p, 0, 0)
        /\ UNCHANGED status
     \/ /\ \E e \in FailErrs : Reject(p, e)
        /\ UNCHANGED inTxn
  /\ UNCHANGED <<store, pendUsers, pendSubs, didCommit, session, op, req, res>>
  /\ UNCHANGED env

CreateIsIdExists(p) ==
  /\ pc[p] = "isIdExists" /\ op[p] = "createUser"
  /\ \/ /\ isIdExists(p, userId[p])
        /\ ReserveNext(p, attempts[p], idx[p])
     \/ /\ ~isIdExists(p, userId[p])
        /\ Goto(p, "users")
        /\ attempts' = [attempts EXCEPT ![p] = 0]
        /\ UNCHANGED <<userId, idx, err>>
     \/ \E e \in FailErrs : Throw(p, e)
  /\ UNCHANGED <<store, txn, session, op, req, status, res>>
  /\ UNCHANGED env

CreateInsertUser(p) ==
  /\ pc[p] = "users" /\ op[p] = "createUser"
  /\ LET row == UserRow(p, userId[p], req[p]) IN
     \/ /\ ~DupAgainst(row, users \cup pendUsers[p])
        /\ ~DupAgainst(row, OthersPending(p))
        /\ pendUsers' = [pendUsers EXCEPT ![p] = @ \cup {row}]
        /\ Goto(p, AfterUsers(req[p]))
        /\ UNCHANGED <<err, locals>>
     \/ /\ DupAgainst(row, users \cup pendUsers[p])
        /\ Throw(p, DupEntry)
        /\ UNCHANGED pendUsers
     \/ /\ \E e \in FailErrs : Throw(p, e)
        /\ UNCHANGED pendUsers
  /\ UNCHANGED <<store, pendSubs, inTxn, didCommit, session, op, req, status, res>>
  /\ UNCHANGED env

\* INSERT INTO <t> (user_id, ...) inside createUser's transaction
InsertSubRecord(p, t, row, next) ==
  /\ pc[p] = t /\ op[p] = "createUser"
  /\ \/ /\ pendSubs' = [pendSubs EXCEPT ![p][t] = @ \cup {Owned(row, p)}]
        /\ Goto(p, next)
        /\ UNCHANGED <<err, locals>>
     \/ /\ \E e \in FailErrs : Throw(p, e)
        /\ UNCHANGED pendSubs
  /\ UNCHANGED <<store, pendUsers, inTxn, didCommit, session, op, req, status, res>>
  /\ UNCHANGED env

CreateInsertAccount(p) ==
  InsertSubRecord(p, "user_accounts", AccountRow(userId[p], req[p].account), AfterAccount(req[p]))

CreateInsertAddress(p) ==
  InsertSubRecord(p, "user_addresses", AddressRow(userId[p], req[p].address), AfterAddress(req[p]))

CreateInsertPreferences(p) ==
  InsertSubRecord(p, "user_preferences", PreferencesRow(userId[p], req[p].preferences),
                  AfterPreferences(req[p]))

CreateInsertProfile(p) ==
  InsertSubRecord(p, "user_profiles", ProfileRow(userId[p], req[p].profile), "commit")

\* COMMIT makes the rows of p's transaction visible to everyone
CommitRows(p) ==
  /\ users' = users \cup pendUsers[p]
  /\ subs' = [t \in SubTables |-> subs[t] \cup pendSubs[p][t]]
  /\ pendUsers' = [pendUsers EXCEPT ![p] = {}]
  /\ pendSubs' = [pendSubs EXCEPT ![p] = NoRows]
  /\ inTxn' = [inTxn EXCEPT ![p] = FALSE]
  /\ didCommit' = [didCommit EXCEPT ![p] = TRUE]

\* variant: statements that were applied outside the transaction, which
\* ROLLBACK does not undo
DiscardRowsKeepsWrites(p) ==
  /\ users' = users \cup pendUsers[p]
  /\ subs' = [t \in SubTables |-> subs[t] \cup pendSubs[p][t]]
  /\ pendUsers' = [pendUsers EXCEPT ![p] = {}]
  /\ pendSubs' = [pendSubs EXCEPT ![p] = NoRows]
  /\ inTxn' = [inTxn EXCEPT ![p] = FALSE]
  /\ UNCHANGED didCommit

\* ROLLBACK, or the server dropping the transaction of a lost connection
DiscardRows(p) ==
  /\ pendUsers' = [pendUsers EXCEPT ![p] = {}]
  /\ pendSubs' = [pendSubs EXCEPT ![p] = NoRows]
  /\ inTxn' = [inTxn EXCEPT ![p] = FALSE]
  /\ UNCHANGED <<store, didCommit>>

CreateCommit(p) ==
  /\ pc[p] = "commit" /\ op[p] = "createUser"
  /\ \/ /\ CommitRows(p)
        /\ Goto(p, "readback")
        /\ UNCHANGED <<err, locals>>
     \/ /\ \E e \in FailErrs : Throw(p, e)
        /\ UNCHANGED <<store, txn>>
  /\ UNCHANGED <<session, op, req, status, res>>
  /\ UNCHANGED env

\* const [newUser] = await pool.execute('SELECT * FROM users WHERE id = ?')
CreateReadBack(p) ==
  /\ pc[p] = "readback" /\ op[p] = "createUser"
  /\ \/ /\ Respond(p, 201)
        /\ res' = [res EXCEPT ![p] = [generated_id |-> userId[p]]]
        /\ Release(p)
        /\ UNCHANGED err
     \/ /\ \E e \in ProviderErrs(AllFailedErr) : Throw(p, e)
        /\ UNCHANGED <<status, res, released>>
  /\ UNCHANGED <<store, txn, acquired, op, req>>
  /\ UNCHANGED env

\* catch (error) { await connection.rollback(); throw error; } finally release
CreateRollback(p) ==
  /\ pc[p] = "rollback" /\ op[p] = "createUser"
  /\ DiscardRows(p)
  /\ \/ Reject(p, err[p])
     \/ \E e \in FailErrs : Reject(p, e)
  /\ Release(p)
  /\ UNCHANGED <<acquired, op, req, res>>
  /\ UNCHANGED env

\* the existence check of the revisions of the routes file in which
\* isIdExists catches the error of its SELECT, logs it and returns false:
\* err keeps the error caught, the loop ends with the candidate
CreateIsIdExistsCaught(p) ==
  /\ pc[p] = "isIdExists" /\ op[p] = "createUser"
  /\ \/ /\ isIdExists(p, userId[p])
        /\ ReserveNext(p, attempts[p], idx[p])
     \/ /\ ~isIdExists(p, userId[p])
        /\ Goto(p, "users")
        /\ attempts' = [attempts EXCEPT ![p] = 0]
        /\ UNCHANGED <<userId, idx, err>>
     \/ /\ \E e \in FailErrs : err' = [err EXCEPT ![p] = e]
        /\ Goto(p, "users")
        /\ attempts' = [attempts EXCEPT ![p] = 0]
        /\ UNCHANGED <<userId, idx>>
  /\ UNCHANGED <<store, txn, session, op, req, status, res>>
  /\ UNCHANGED env

NextCaught ==
  \E p \in Procs :
    \/ CreateUser(p)
    \/ CreateGetConnection(p)
    \/ CreateBegin(p)
    \/ CreateIsIdExistsCaught(p)
    \/ CreateInsertUser(p)
    \/ CreateInsertAccount(p)
    \/ CreateInsertAddress(p)
    \/ CreateInsertPreferences(p)
    \/ CreateInsertProfile(p)
    \/ CreateCommit(p)
    \/ CreateReadBack(p)
    \/ CreateRollback(p)

\* createUser requests with the existence check that catches its error
SpecCaught == Init /\ [][NextCaught]_vars

\* --------------------------------------- POST /users/bulk (createUsersBulk)
\* the users arrays of the bulk bodies, the empty array included
RECURSIVE SeqsOver(_, _)
SeqsOver(S, n) ==
  IF n = 0 THEN {<<>>}
  ELSE LET shorter == SeqsOver(S, n - 1)
       IN shorter \cup {Append(q, x) : q \in {r \in shorter : Len(r) = n - 1}, x \in S}

\* the bodies handler p receives: arrays of up to MaxBatch items for one
\* handler, of fewer items for a batch that runs concurrently with it.  The
\* loop throws at the first item without username or email and reads no
\* item after it, so such an item is given as the last one of its array
BulkInputsOf(p) ==
  LET BulkInputs ==
        {[users |-> q] : q \in {r \in SeqsOver(CoreInputs, MaxBatch) :
                                  \A i \in 1..(Len(r) - 1) : ~Falsy(r[i].username) /\ ~Falsy(r[i].email)}}
  IN {b \in BulkInputs : p = "h1" \/ Len(b.users) < MaxBatch}

\* variant: an item without username or email is skipped, the rest of the
\* batch is still written
RECURSIVE BulkItemSkipsInvalid(_, _)
BulkItemSkipsInvalid(p, i) ==
  IF i > Len(req[p].users)
    THEN Goto(p, "commit") /\ EndScope(p) /\ UNCHANGED err
    ELSE IF Falsy(req[p].users[i].username) \/ Falsy(req[p].users[i].email)
           THEN BulkItemSkipsInvalid(p, i + 1)
           ELSE ReserveNext(p, 0, i)

\* top of the for loop for item i, up to the first await of the iteration
BulkItem(p, i) ==
  LET userData == req[p].users[i] IN
  IF Falsy(userData.username) \/ Falsy(userData.email)
    THEN Throw(p, [code |-> UNDEF, message |-> "Username and email are required for user"])
    ELSE ReserveNext(p, 0, i)

CreateUsersBulk(p) ==
  /\ pc[p] = "idle"
  /\ \E b \in BulkInputsOf(p) :
       /\ op' = [op EXCEPT ![p] = "createUsersBulk"]
       /\ req' = [req EXCEPT ![p] = b]
       /\ IF Len(b.users) = 0
            THEN Respond(p, 400)
            ELSE Goto(p, "getConnection") /\ UNCHANGED <<status, userId, attempts, idx>>
  /\ UNCHANGED <<store, txn, session, err, res>>
  /\ UNCHANGED env

BulkGetConnection(p) ==
  /\ pc[p] = "getConnection" /\ op[p] = "createUsersBulk"
  /\ \/ /\ acquired' = [acquired EXCEPT ![p] = @ + 1]
        /\ Goto(p, "beginTransaction")
        /\ UNCHANGED <<err, status, userId, attempts, idx>>
     \/ /\ \E e \in ProviderErrs(NoConnectionErr) : Reject(p, e)
        /\ UNCHANGED acquired
  /\ UNCHANGED <<store, txn, released, op, req, res>>
  /\ UNCHANGED env

BulkBegin(p) ==
  /\ pc[p] = "beginTransaction" /\ op[p] = "createUsersBulk"
  /\ \/ /\ inTxn' = [inTxn EXCEPT ![p] = TRUE]
        /\ BulkItem(p, 1)
        /\ UNCHANGED status
     \/ /\ \E e \in FailErrs : Reject(p, e)
        /\ UNCHANGED inTxn
  /\ UNCHANGED <<store, pendUsers, pendSubs, didCommit, session, op, req, res>>
  /\ UNCHANGED env

BulkIsIdExists(p) ==
  /\ pc[p] = "isIdExists" /\ op[p] = "createUsersBulk"
  /\ \/ /\ isIdExists(p, userId[p])
        /\ ReserveNext(p, attempts[p], idx[p])
     \/ /\ ~isIdExists(p, userId[p])
        /\ Goto(p, "users")
        /\ attempts' = [attempts EXCEPT ![p] = 0]
        /\ UNCHANGED <<userId, idx, err>>
     \/ \E e \in FailErrs : Throw(p, e)
  /\ UNCHANGED <<store, txn, session, op, req, status, res>>
  /\ UNCHANGED env

BulkInsertUser(p) ==
  /\ pc[p] = "users" /\ op[p] = "createUsersBulk"
  /\ LET row == UserRow(p, userId[p], req[p].users[idx[p]]) IN
     \/ /\ ~DupAgainst(row, users \cup pendUsers[p])
        /\ ~DupAgainst(row, OthersPending(p))
        /\ pendUsers' = [pendUsers EXCEPT ![p] = @ \cup {row}]
        /\ IF idx[p] < Len(req[p].users)
             THEN BulkItem(p, idx[p] + 1)
             ELSE Goto(p, "commit") /\ EndScope(p) /\ UNCHANGED err
     \/ /\ DupAgainst(row, users \cup pendUsers[p])
        /\ Throw(p, DupEntry)
        /\ UNCHANGED pendUsers
     \/ /\ \E e \in FailErrs : Throw(p, e)
        /\ UNCHANGED pendUsers
  /\ UNCHANGED <<store, pendSubs, inTxn, didCommit, session, op, req, status, res>>
  /\ UNCHANGED env

BulkCommit(p) ==
  /\ pc[p] = "commit" /\ op[p] = "createUsersBulk"
  /\ \/ /\ CommitRows(p)
        /\ Respond(p, 201)
        /\ res' = [res EXCEPT ![p] = [created |-> Cardinality(pendUsers[p])]]
        /\ Release(p)
        /\ UNCHANGED err
     \/ /\ \E e \in FailErrs : Throw(p, e)
        /\ UNCHANGED <<store, txn, status, res, released>>
  /\ UNCHANGED <<acquired, op, req>>
  /\ UNCHANGED env

BulkRollback(p) ==
  /\ pc[p] = "rollback" /\ op[p] = "createUsersBulk"
  /\ DiscardRows(p)
  /\ \/ Reject(p, err[p])
     \/ \E e \in FailErrs : Reject(p, e)
  /\ Release(p)
  /\ UNCHANGED <<acquired, op, req, res>>
  /\ UNCHANGED env

\* ------------------------------------------------ GET /users/:id (getUser)
\* rows[0] || null for the rows a SELECT returned
FirstOrNull(rows, r) == IF rows = {} THEN r = NULL ELSE r \in rows

\* variant: the lookup without its WHERE clause
SelectWithoutWhere(t, id) == subs[t]

\* SELECT * FROM <t> WHERE user_id = ?
SelectByUserId(t, id) == {r \in subs[t] : r.user_id = id}

GetUser(p) ==
  /\ pc[p] = "idle"
  /\ \E id \in Ids :
       /\ op' = [op EXCEPT ![p] = "getUser"]
       /\ req' = [req EXCEPT ![p] = [id |-> id]]
  /\ Goto(p, "select_users")
  /\ UNCHANGED <<store, txn, session, locals, err, status, res>>
  /\ UNCHANGED env

\* a failing query is caught by the handler and answered with 500
GetFailed(p) ==
  /\ \E e \in FailErrs : err' = [err EXCEPT ![p] = e]
  /\ Respond(p, 500)
  /\ UNCHANGED res

GetUserCore(p) ==
  /\ pc[p] = "select_users" /\ op[p] = "getUser"
  /\ LET found == {u \in users : u.id = req[p].id} IN
     \/ /\ found = {}
        /\ Respond(p, 404)
        /\ UNCHANGED <<err, res>>
     \/ /\ \E u \in found :
             res' = [res EXCEPT ![p] = [user |-> u, account |-> NULL, address |-> NULL,
                                        preferences |-> NULL, profile |-> NULL]]
        /\ Goto(p, "select_user_accounts")
        /\ UNCHANGED <<err, status, userId, attempts, idx>>
     \/ GetFailed(p)
  /\ UNCHANGED <<store, txn, session, op, req>>
  /\ UNCHANGED env

GetUserAccount(p) ==
  /\ pc[p] = "select_user_accounts"
  /\ \/ /\ \E r \in SelectByUserId("user_accounts", req[p].id) \cup {NULL} :
             /\ FirstOrNull(SelectByUserId("user_accounts", req[p].id), r)
             /\ res' = [res EXCEPT ![p].account = r]
        /\ Goto(p, "select_user_addresses")
        /\ UNCHANGED <<err, status, userId, attempts, idx>>
     \/ GetFailed(p)
  /\ UNCHANGED <<store, txn, session, op, req>>
  /\ UNCHANGED env

GetUserAddress(p) ==
  /\ pc[p] = "select_user_addresses"
  /\ \/ /\ \E r \in SelectByUserId("user_addresses", req[p].id) \cup {NULL} :
             /\ FirstOrNull(SelectByUserId("user_addresses", req[p].id), r)
             /\ res' = [res EXCEPT ![p].address = r]
        /\ Goto(p, "select_user_preferences")
        /\ UNCHANGED <<err, status, userId, attempts, idx>>
     \/ GetFailed(p)
  /\ UNCHANGED <<store, txn, session, op, req>>
  /\ UNCHANGED env

GetUserPreferences(p) ==
  /\ pc[p] = "select_user_preferences"
  /\ \/ /\ \E r \in SelectByUserId("user_preferences", req[p].id) \cup {NULL} :
             /\ FirstOrNull(SelectByUserId("user_preferences", req[p].id), r)
             /\ res' = [res EXCEPT ![p].preferences = r]
        /\ Goto(p, "select_user_profiles")
        /\ UNCHANGED <<err, status, userId, attempts, idx>>
     \/ GetFailed(p)
  /\ UNCHANGED <<store, txn, session, op, req>>
  /\ UNCHANGED env

\* the last lookup, then res.json(userData)
GetUserProfile(p) ==
  /\ pc[p] = "select_user_profiles"
  /\ \/ /\ \E r \in SelectByUserId("user_profiles", req[p].id) \cup {NULL} :
             /\ FirstOrNull(SelectByUserId("user_profiles", req[p].id), r)
             /\ res' = [res EXCEPT ![p].profile = r]
        /\ Respond(p, 200)
        /\ UNCHANGED err
     \/ GetFailed(p)
  /\ UNCHANGED <<store, txn, session, op, req>>
  /\ UNCHANGED env

\* ------------------------------------------- DELETE /users/:id (deleteUser)
\* variant: foreign keys without ON DELETE CASCADE checks switched on
DeleteWithoutCascade(id) ==
  /\ users' = {u \in users : u.id # id}
  /\ subs' = subs

\* DELETE FROM users WHERE id = ? with ON DELETE CASCADE on the four tables
DeleteCascade(id) ==
  /\ users' = {u \in users : u.id # id}
  /\ subs' = [t \in SubTables |-> {r \in subs[t] : r.user_id # id}]

DeleteUser(p) ==
  /\ pc[p] = "idle"
  /\ \E id \in Ids :
       /\ op' = [op EXCEPT ![p] = "deleteUser"]
       /\ req' = [req EXCEPT ![p] = [id |-> id]]
  /\ Goto(p, "delete_users")
  /\ UNCHANGED <<store, txn, session, locals, err, status, res>>
  /\ UNCHANGED env

DeleteUserExecute(p) ==
  /\ pc[p] = "delete_users" /\ op[p] = "deleteUser" /\ isConnected
  /\ LET affectedRows == Cardinality({u \in users : u.id = req[p].id}) IN
     \/ /\ ~\E q \in Procs : \E u \in pendUsers[q] : u.id = req[p].id
        /\ DeleteCascade(req[p].id)
        /\ Respond(p, IF affectedRows = 0 THEN 404 ELSE 200)
        /\ UNCHANGED err
     \/ /\ \E e \in FailErrs : Reject(p, e)
        /\ UNCHANGED store
  /\ UNCHANGED <<txn, session, op, req, res>>
  /\ UNCHANGED env

Next ==
  \E p \in Procs :
    \/ CreateUser(p)
    \/ CreateGetConnection(p)
    \/ CreateBegin(p)
    \/ CreateIsIdExists(p)
    \/ CreateInsertUser(p)
    \/ CreateInsertAccount(p)
    \/ CreateInsertAddress(p)
    \/ CreateInsertPreferences(p)
    \/ CreateInsertProfile(p)
    \/ CreateCommit(p)
    \/ CreateReadBack(p)
    \/ CreateRollback(p)
    \/ CreateUsersBulk(p)
    \/ BulkGetConnection(p)
    \/ BulkBegin(p)
    \/ BulkIsIdExists(p)
    \/ BulkInsertUser(p)
    \/ BulkCommit(p)
    \/ BulkRollback(p)
    \/ GetUser(p)
    \/ GetUserCore(p)
    \/ GetUserAccount(p)
    \/ GetUserAddress(p)
    \/ GetUserPreferences(p)
    \/ GetUserProfile(p)
    \/ DeleteUser(p)
    \/ DeleteUserExecute(p)

Spec == Init /\ [][Next]_vars

\* ------------------------------------------------- a store with users in it
\* the bound parameters of the sub-record INSERT of createUser for table t
SubRow(t, id, b) ==
  CASE t = "user_accounts" -> AccountRow(id, b.account)
    [] t = "user_addresses" -> AddressRow(id, b.address)
    [] t = "user_preferences" -> PreferencesRow(id, b.preferences)
    [] t = "user_profiles" -> ProfileRow(id, b.profile)

Payload(b, t) ==
  CASE t = "user_accounts" -> b.account
    [] t = "user_addresses" -> b.address
    [] t = "user_preferences" -> b.preferences
    [] t = "user_profiles" -> b.profile

\* users that earlier createUser calls have left in the store: each of the
\* two users absent, present without sub-records, or present with all four
Earlier == "earlier"
StoredSets ==
  LET StoredBodies ==
        { [id |-> generateRandomId(1, 0), body |-> Body([username |-> "alice", email |-> "a@x.io"], s)] : s \in Shapes }
        \cup
        { [id |-> generateRandomId(1, 1), body |-> Body([username |-> "bob", email |-> "b@x.io"], s)] : s \in Shapes }
  IN {S \in SUBSET StoredBodies : \A x \in S : \A y \in S : x.id = y.id => x = y}

InitStored ==
  /\ \E S \in StoredSets :
       /\ users = {UserRow(Earlier, x.id, x.body) : x \in S}
       /\ subs = [t \in SubTables |->
                    {Owned(SubRow(t, x.id, x.body), Earlier) :
                       x \in {y \in S : Truthy(Payload(y.body, t))}}]
  /\ pendUsers = [p \in Procs |-> {}]
  /\ pendSubs = [p \in Procs |-> NoRows]
  /\ inTxn = [p \in Procs |-> FALSE]
  /\ didCommit = [p \in Procs |-> FALSE]
  /\ acquired = [p \in Procs |-> 0]
  /\ released = [p \in Procs |-> 0]
  /\ pc = [p \in Procs |-> "idle"]
  /\ op = [p \in Procs |-> "none"]
  /\ req = [p \in Procs |-> NoReq]
  /\ userId = [p \in Procs |-> 0]
  /\ attempts = [p \in Procs |-> 0]
  /\ idx = [p \in Procs |-> 0]
  /\ err = [p \in Procs |-> NoErr]
  /\ status = [p \in Procs |-> 0]
  /\ res = [p \in Procs |-> NoRes]
  /\ clock = 1
  /\ isConnected = TRUE
  /\ pool = 1
  /\ method = [p \in Procs |-> 0]
  /\ submitted = [p \in Procs |-> 0]

NextStored ==
  \E p \in Procs :
    \/ CreateUser(p)
    \/ CreateGetConnection(p)
    \/ CreateBegin(p)
    \/ CreateIsIdExists(p)
    \/ CreateInsertUser(p)
    \/ CreateInsertAccount(p)
    \/ CreateInsertAddress(p)
    \/ CreateInsertPreferences(p)
    \/ CreateInsertProfile(p)
    \/ CreateCommit(p)
    \/ CreateReadBack(p)
    \/ CreateRollback(p)
    \/ GetUser(p)
    \/ GetUserCore(p)
    \/ GetUserAccount(p)
    \/ GetUserAddress(p)
    \/ GetUserPreferences(p)
    \/ GetUserProfile(p)
    \/ DeleteUser(p)
    \/ DeleteUserExecute(p)

\* requests over a store that already holds users
SpecStored == InitStored /\ [][NextStored]_vars

\* ------------------------------------------- createUser read back by getUser
Flags == {UNDEF, "false", "true", "0"}

\* bodies that vary the fields of one of the two defaulted payloads
RoundTripInputs ==
  LET AccountPayloads ==
        [status : {UNDEF, "active", "suspended"}, role : {UNDEF, "user", "admin"},
         subscription : {UNDEF, "free", "premium"}]
      PreferencesPayloads ==
        [language : {UNDEF, "id"}, timezone : {UNDEF, "UTC"},
         notify_email : Flags, notify_sms : Flags, notify_push : Flags]
      RoundTripShapes ==
        { [account |-> a, address |-> o.address, preferences |-> pr, profile |-> o.profile] :
            a \in AccountPayloads \cup {UNDEFINED}, pr \in {UNDEFINED, NoPreferences}, o \in Shapes }
        \cup
        { [account |-> a, address |-> o.address, preferences |-> pr, profile |-> o.profile] :
            a \in {UNDEFINED, NoAccount}, pr \in PreferencesPayloads, o \in Shapes }
  IN {Body([username |-> "alice", email |-> "a@x.io"], s) : s \in RoundTripShapes}

Creator == "h1"
Reader == "h2"

NextRoundTrip ==
  \/ StartCreateUser(Creator, RoundTripInputs)
  \/ CreateGetConnection(Creator)
  \/ CreateBegin(Creator)
  \/ CreateIsIdExists(Creator)
  \/ CreateInsertUser(Creator)
  \/ CreateInsertAccount(Creator)
  \/ CreateInsertAddress(Creator)
  \/ CreateInsertPreferences(Creator)
  \/ CreateInsertProfile(Creator)
  \/ CreateCommit(Creator)
  \/ CreateReadBack(Creator)
  \/ CreateRollback(Creator)
  \/ GetUser(Reader)
  \/ GetUserCore(Reader)
  \/ GetUserAccount(Reader)
  \/ GetUserAddress(Reader)
  \/ GetUserPreferences(Reader)
  \/ GetUserProfile(Reader)

\* one createUser call with any payload, read by one getUser call
SpecRoundTrip == Init /\ [][NextRoundTrip]_vars

\* ------------------------------------------ PATCH /users/:id (updateUser)
MaxClock == 2

\* variant: the forEach accepts the key id as well
WhitelistWithId == {"id", "username", "email", "first_name", "last_name", "phone", "date_of_birth", "gender"}

\* the keys the forEach accepts
Whitelist == {"username", "email", "first_name", "last_name", "phone", "date_of_birth", "gender"}

\* a users row with every column of the table
FullUserRow(p, id, c, t) ==
  [id |-> id, username |-> c.username, email |-> c.email, first_name |-> "A",
   last_name |-> "B", phone |-> "0", date_of_birth |-> "2000-01-01", gender |-> "other",
   created_at |-> t, updated_at |-> t, last_login |-> "null", by |-> p]

\* variant: the check for an empty SET clause is missing
NoValidFieldsNever(updates) == FALSE

\* fields.length === 0, fields being Object.keys(updates) filtered by the
\* whitelist
NoValidFields(updates) == {kv.key : kv \in updates} \cap Whitelist = {}

\* variant: every key of the body goes into the SET clause
SetClauseUnfiltered(updates, f) == {ValueOf(kv.value) : kv \in {x \in updates : x.key = f}}

\* the value bound for column f, none when f is not in the SET clause
SetClause(updates, f) ==
  {ValueOf(kv.value) : kv \in {x \in updates : x.key = f /\ f \in Whitelist}}

\* UPDATE users SET <fields>, updated_at = NOW() on one row
UpdatedRow(u, updates, t) ==
  [f \in DOMAIN u |->
     IF SetClause(updates, f) # {} THEN CHOOSE v \in SetClause(updates, f) : TRUE
     ELSE IF f = "updated_at" THEN t
     ELSE u[f]]

\* Patches: req.body of the PATCH requests, each a set of key/value pairs
UpdateUser(p) ==
  /\ pc[p] = "idle"
  /\ LET Patches ==
        { {},
          {[key |-> "unknownField", value |-> Str("1")]},
          {[key |-> "username", value |-> Str("new")], [key |-> "unknownField", value |-> Str("1")]},
          {[key |-> "username", value |-> Str("bob")]},
          {[key |-> "email", value |-> Str("n@x.io")], [key |-> "gender", value |-> Str("male")]},
          {[key |-> "first_name", value |-> Str("N")], [key |-> "last_login", value |-> Str("never")]},
          {[key |-> "id", value |-> Num(4242)], [key |-> "phone", value |-> Str("1")]} }
     IN \E id \in Ids : \E updates \in Patches :
          /\ op' = [op EXCEPT ![p] = "updateUser"]
          /\ req' = [req EXCEPT ![p] = [id |-> id, updates |-> updates]]
  /\ Goto(p, "patch_select")
  /\ UNCHANGED <<store, txn, session, locals, err, status, res, env>>

\* SELECT id FROM users WHERE id = ?, then the SET clause is built
UpdateUserSelect(p) ==
  /\ pc[p] = "patch_select" /\ op[p] = "updateUser"
  /\ LET existingUser == {u \in users : u.id = req[p].id} IN
     \/ /\ existingUser = {}
        /\ Respond(p, 404)
        /\ UNCHANGED err
     \/ /\ existingUser # {} /\ NoValidFields(req[p].updates)
        /\ Respond(p, 400)
        /\ UNCHANGED err
     \/ /\ existingUser # {} /\ ~NoValidFields(req[p].updates)
        /\ Goto(p, "patch_update")
        /\ UNCHANGED <<err, status, locals>>
     \/ \E e \in FailErrs : Reject(p, e)
  /\ UNCHANGED <<store, txn, session, op, req, res, env>>

\* UPDATE users SET ... WHERE id = ?
UpdateUserExecute(p) ==
  /\ pc[p] = "patch_update" /\ op[p] = "updateUser"
  /\ LET hit == {u \in users : u.id = req[p].id}
         new == {UpdatedRow(u, req[p].updates, clock) : u \in hit}
     IN
     \/ /\ \A n \in new : ~DupAgainst(n, users \ hit)
        /\ users' = (users \ hit) \cup new
        /\ Respond(p, 200)
        /\ UNCHANGED err
     \/ /\ \E n \in new : DupAgainst(n, users \ hit)
        /\ Reject(p, DupEntry)
        /\ UNCHANGED users
     \/ /\ \E e \in FailErrs : Reject(p, e)
        /\ UNCHANGED users
  /\ UNCHANGED <<subs, txn, session, op, req, res, env>>

\* time passes
Tick ==
  /\ clock < MaxClock
  /\ clock' = clock + 1
  /\ UNCHANGED <<store, txn, session, pc, op, req, locals, err, status, res,
                 isConnected, pool, method, submitted>>

\* one call of generateRandomId at the millisecond the clock shows: random is
\* the value of Math.random() in ten-thousandths, from 0 up to but not 1
Generate(p) ==
  /\ pc[p] \in {"idle", "generated"}
  /\ \E random \in {0, 9, 5000, 9989, 9999} :
       LET rnd == (random * 1000) \div 10000 IN
       /\ req' = [req EXCEPT ![p] = [now |-> clock, random |-> random]]
       /\ userId' = [userId EXCEPT ![p] = generateRandomId(clock, rnd)]
  /\ op' = [op EXCEPT ![p] = "generate"]
  /\ Goto(p, "generated")
  /\ UNCHANGED <<store, txn, session, attempts, idx, err, status, res, env>>

NextGenerate ==
  \/ Tick
  \/ \E p \in Procs : Generate(p)

\* calls of generateRandomId while time passes
SpecGenerate == Init /\ [][NextGenerate]_vars

\* stores for the PATCH requests: rows written at time 1
InitUpdate ==
  /\ \E S \in StoredSets :
       /\ users = {FullUserRow(Earlier, x.id, x.body, 1) : x \in S}
       /\ subs = [t \in SubTables |->
                    {Owned(SubRow(t, x.id, x.body), Earlier) :
                       x \in {y \in S : Truthy(Payload(y.body, t))}}]
  /\ pendUsers = [p \in Procs |-> {}]
  /\ pendSubs = [p \in Procs |-> NoRows]
  /\ inTxn = [p \in Procs |-> FALSE]
  /\ didCommit = [p \in Procs |-> FALSE]
  /\ acquired = [p \in Procs |-> 0]
  /\ released = [p \in Procs |-> 0]
  /\ pc = [p \in Procs |-> "idle"]
  /\ op = [p \in Procs |-> "none"]
  /\ req = [p \in Procs |-> NoReq]
  /\ userId = [p \in Procs |-> 0]
  /\ attempts = [p \in Procs |-> 0]
  /\ idx = [p \in Procs |-> 0]
  /\ err = [p \in Procs |-> NoErr]
  /\ status = [p \in Procs |-> 0]
  /\ res = [p \in Procs |-> NoRes]
  /\ clock = 1
  /\ isConnected = TRUE
  /\ pool = 1
  /\ method = [p \in Procs |-> 0]
  /\ submitted = [p \in Procs |-> 0]

NextUpdate ==
  \/ Tick
  \/ \E p \in Procs :
       \/ UpdateUser(p)
       \/ UpdateUserSelect(p)
       \/ UpdateUserExecute(p)
       \/ DeleteUser(p)
       \/ DeleteUserExecute(p)

\* PATCH and DELETE requests over a store that holds users
SpecUpdate == InitUpdate /\ [][NextUpdate]_vars

\* ----------------------------- sub-record routes: POST, PUT, DELETE
\* ------------------------------ and dbExports.execute (database.js)
NumConnectionMethods == 3

\* the error codes and errors these statements end with
NoReferencedRow == [code |-> "ER_NO_REFERENCED_ROW_2", message |-> "foreign key"]

\* req.body of the sub-record requests
FullAccount == [status |-> "suspended", role |-> "admin", subscription |-> "premium"]
FullPreferences == [language |-> "id", timezone |-> "UTC", notify_email |-> "true",
                    notify_sms |-> "true", notify_push |-> "true"]

\* variant: the tables without their FOREIGN KEY
ParentExistsUnchecked(id) == TRUE

\* FOREIGN KEY (user_id) REFERENCES users(id)
ParentExists(id) == \E u \in users : u.id = id

\* the statement of a write request, accepted by the store: its effect.
\* An inserted row carries as history the call and which submission of its
\* statement wrote it (the rows differ in their AUTO_INCREMENT id)
WriteEffect(p) ==
  LET id == req[p].id
      t == req[p].table
      Nth(r, n) == [f \in DOMAIN r \cup {"by", "nth"} |->
                      IF f = "by" THEN p ELSE IF f = "nth" THEN n ELSE r[f]]
      \* the parameters of the UPDATE of a PUT, bound as given
      PutRow(r) ==
        LET given == Payload(req[p].body, t) IN
        [f \in DOMAIN r |->
           IF f \in DOMAIN given
             THEN (IF f \in {"notify_email", "notify_sms", "notify_push"}
                     THEN ToTinyInt(given[f]) ELSE given[f])
             ELSE r[f]]
  IN CASE op[p] = "createSub" ->
            /\ subs' = [subs EXCEPT ![t] = @ \cup {Nth(SubRow(t, id, req[p].body), submitted[p] + 1)}]
            /\ UNCHANGED users
       [] op[p] = "updateSub" ->
            /\ subs' = [subs EXCEPT ![t] = {IF r.user_id = id THEN PutRow(r) ELSE r : r \in @}]
            /\ UNCHANGED users
       [] op[p] = "deleteSub" ->
            /\ subs' = [subs EXCEPT ![t] = {r \in @ : r.user_id # id}]
            /\ UNCHANGED users
       [] op[p] = "deleteUser" -> DeleteCascade(id)

\* the error the store answers the statement with, NoErr when it accepts it
WriteRejection(p) ==
  IF op[p] = "createSub" /\ ~ParentExists(req[p].id) THEN NoReferencedRow ELSE NoErr

\* the statement waits for a row lock of an open transaction
WriteBlocked(p) == \E q \in Procs : \E u \in pendUsers[q] : u.id = req[p].id

\* the status the handler answers after its statement returned
WriteStatus(p) ==
  IF op[p] = "createSub" THEN 201
  ELSE IF op[p] = "deleteUser"
         THEN (IF \E u \in users : u.id = req[p].id THEN 200 ELSE 404)
  ELSE IF \E r \in subs[req[p].table] : r.user_id = req[p].id THEN 200 ELSE 404

CreateSubRecord(p) ==
  /\ pc[p] = "idle"
  /\ \E id \in Ids, t \in SubTables, a \in {NoAccount, FullAccount} :
       req' = [req EXCEPT ![p] =
                 [id |-> id, table |-> t,
                  body |-> [account |-> a, address |-> AnAddress,
                            preferences |-> IF a = NoAccount THEN NoPreferences
                                            ELSE FullPreferences,
                            profile |-> AProfile]]]
  /\ op' = [op EXCEPT ![p] = "createSub"]
  /\ Goto(p, "execute")
  /\ UNCHANGED <<store, txn, session, locals, err, status, res, env>>

\* had is history: a row of the kind existed for the id when the request
\* arrived
UpdateSubRecord(p) ==
  /\ pc[p] = "idle"
  /\ \E id \in Ids, t \in SubTables :
       req' = [req EXCEPT ![p] = [id |-> id, table |-> t,
                                  body |-> [account |-> FullAccount, address |-> AnAddress,
                                            preferences |-> FullPreferences, profile |-> AProfile],
                                  had |-> \E r \in subs[t] : r.user_id = id]]
  /\ op' = [op EXCEPT ![p] = "updateSub"]
  /\ Goto(p, "execute")
  /\ UNCHANGED <<store, txn, session, locals, err, status, res, env>>

DeleteSubRecord(p) ==
  /\ pc[p] = "idle"
  /\ \E id \in Ids, t \in SubTables :
       req' = [req EXCEPT ![p] = [id |-> id, table |-> t,
                                  had |-> \E r \in subs[t] : r.user_id = id]]
  /\ op' = [op EXCEPT ![p] = "deleteSub"]
  /\ Goto(p, "execute")
  /\ UNCHANGED <<store, txn, session, locals, err, status, res, env>>

\* the catch of the loop over connectionMethods: continue with the next
\* method, and after the last one throw
NextMethod(p) ==
  IF method[p] + 1 = NumConnectionMethods
    THEN /\ Reject(p, AllFailedErr)
         /\ method' = [method EXCEPT ![p] = 0]
    ELSE /\ method' = [method EXCEPT ![p] = @ + 1]
         /\ UNCHANGED <<pc, status, err, locals>>

\* await pool.execute(statement, params) of a write request, pool being
\* dbExports: the connected pool, or one direct connection per method
ProviderExecute(p) ==
  /\ op[p] \in {"createSub", "updateSub", "deleteSub", "deleteUser"}
  /\ pc[p] = "execute" \/ (pc[p] = "delete_users" /\ ~isConnected)
  /\ \/ /\ isConnected /\ WriteRejection(p) = NoErr /\ ~WriteBlocked(p)
        /\ WriteEffect(p)
        /\ submitted' = [submitted EXCEPT ![p] = @ + 1]
        /\ Respond(p, WriteStatus(p))
        /\ UNCHANGED <<err, method>>
     \/ /\ isConnected /\ WriteRejection(p) # NoErr
        /\ submitted' = [submitted EXCEPT ![p] = @ + 1]
        /\ Reject(p, WriteRejection(p))
        /\ UNCHANGED <<store, method>>
     \/ /\ isConnected
        /\ \E e \in FailErrs : Reject(p, e)
        /\ UNCHANGED <<store, method, submitted>>
     \/ /\ ~isConnected /\ WriteRejection(p) = NoErr /\ ~WriteBlocked(p)
        /\ WriteEffect(p)
        /\ submitted' = [submitted EXCEPT ![p] = @ + 1]
        /\ \/ /\ Respond(p, WriteStatus(p))
              /\ method' = [method EXCEPT ![p] = 0]
              /\ UNCHANGED err
           \/ NextMethod(p)
     \/ /\ ~isConnected /\ WriteRejection(p) # NoErr
        /\ submitted' = [submitted EXCEPT ![p] = @ + 1]
        /\ NextMethod(p)
        /\ UNCHANGED store
     \/ /\ ~isConnected
        /\ NextMethod(p)
        /\ UNCHANGED <<store, submitted>>
  /\ UNCHANGED <<txn, session, op, req, res, clock, isConnected, pool>>

\* the store as earlier calls left it, the pool connected or not
InitSub ==
  /\ \E S \in StoredSets :
       /\ users = {UserRow(Earlier, x.id, x.body) : x \in S}
       /\ subs = [t \in SubTables |->
                    {Owned(SubRow(t, x.id, x.body), Earlier) :
                       x \in {y \in S : Truthy(Payload(y.body, t))}}]
  /\ pendUsers = [p \in Procs |-> {}]
  /\ pendSubs = [p \in Procs |-> NoRows]
  /\ inTxn = [p \in Procs |-> FALSE]
  /\ didCommit = [p \in Procs |-> FALSE]
  /\ acquired = [p \in Procs |-> 0]
  /\ released = [p \in Procs |-> 0]
  /\ pc = [p \in Procs |-> "idle"]
  /\ op = [p \in Procs |-> "none"]
  /\ req = [p \in Procs |-> NoReq]
  /\ userId = [p \in Procs |-> 0]
  /\ attempts = [p \in Procs |-> 0]
  /\ idx = [p \in Procs |-> 0]
  /\ err = [p \in Procs |-> NoErr]
  /\ status = [p \in Procs |-> 0]
  /\ res = [p \in Procs |-> NoRes]
  /\ clock = 1
  /\ isConnected \in BOOLEAN
  /\ pool = (IF isConnected THEN 1 ELSE 0)
  /\ method = [p \in Procs |-> 0]
  /\ submitted = [p \in Procs |-> 0]

\* one client creates sub-records while the other updates and deletes
NextSub ==
  \/ CreateSubRecord(Creator)
  \/ UpdateSubRecord(Reader)
  \/ DeleteSubRecord(Reader)
  \/ DeleteUser(Reader)
  \/ DeleteUserExecute(Reader)
  \/ \E p \in Procs : ProviderExecute(p)

\* sub-record requests and user deletions over a store that holds users
SpecSub == InitSub /\ [][NextSub]_vars

\* one client patches users while the other creates, updates and deletes
\* sub-records
NextIdentity ==
  \/ UpdateUser(Creator)
  \/ UpdateUserSelect(Creator)
  \/ UpdateUserExecute(Creator)
  \/ CreateSubRecord(Reader)
  \/ UpdateSubRecord(Reader)
  \/ DeleteSubRecord(Reader)
  \/ ProviderExecute(Reader)

\* PATCH requests and sub-record requests over a store that holds users
SpecIdentity == InitUpdate /\ [][NextIdentity]_vars

\* ---------------------------- database.js: the pool and testConnection
\* createPoolWithFallback().catch(...) at module load: the loop starts with
\* connectionMethods[0].  tried (the methods the call has attempted) and
\* created (what the call returned) are history
CreatePoolWithFallback(p) ==
  /\ pc[p] = "idle"
  /\ op' = [op EXCEPT ![p] = "init"]
  /\ res' = [res EXCEPT ![p] = [tried |-> << >>, created |-> "pending", result |-> "pending"]]
  /\ method' = [method EXCEPT ![p] = 0]
  /\ Goto(p, "createPool")
  /\ UNCHANGED <<store, txn, session, req, locals, err, status, clock, isConnected, pool,
                 submitted>>

\* variant: a successful test sets isConnected and leaves pool as it was
CreatePoolTryNoInstall(p) ==
  /\ pc[p] = "createPool" /\ op[p] \in {"init", "testConnection"}
  /\ LET i == method[p] + 1
         back == IF op[p] = "init" THEN "done" ELSE "test_resume"
     IN
     \/ /\ pool' = pool
        /\ isConnected' = TRUE
        /\ res' = [res EXCEPT ![p].tried = Append(@, i), ![p].created = "pool"]
        /\ method' = [method EXCEPT ![p] = 0]
        /\ Goto(p, back)
     \/ /\ i < NumConnectionMethods
        /\ res' = [res EXCEPT ![p].tried = Append(@, i)]
        /\ method' = [method EXCEPT ![p] = i]
        /\ UNCHANGED <<pc, pool, isConnected>>
     \/ /\ i = NumConnectionMethods
        /\ res' = [res EXCEPT ![p].tried = Append(@, i), ![p].created = "null"]
        /\ method' = [method EXCEPT ![p] = 0]
        /\ Goto(p, back)
        /\ UNCHANGED <<pool, isConnected>>
  /\ UNCHANGED <<store, txn, session, op, req, locals, err, status, clock, submitted>>

\* one pass of the for loop of createPoolWithFallback, method[p] being i:
\* the test of the pool of connectionMethods[i] succeeds (pool installed,
\* isConnected set, return pool), or it throws and the catch goes on with the
\* next method after the wait, or returns null after the last one
CreatePoolTry(p) ==
  /\ pc[p] = "createPool" /\ op[p] \in {"init", "testConnection"}
  /\ LET i == method[p] + 1
         back == IF op[p] = "init" THEN "done" ELSE "test_resume"
     IN
     \/ /\ pool' = i
        /\ isConnected' = TRUE
        /\ res' = [res EXCEPT ![p].tried = Append(@, i), ![p].created = "pool"]
        /\ method' = [method EXCEPT ![p] = 0]
        /\ Goto(p, back)
     \/ /\ i < NumConnectionMethods
        /\ res' = [res EXCEPT ![p].tried = Append(@, i)]
        /\ method' = [method EXCEPT ![p] = i]
        /\ UNCHANGED <<pc, pool, isConnected>>
     \/ /\ i = NumConnectionMethods
        /\ res' = [res EXCEPT ![p].tried = Append(@, i), ![p].created = "null"]
        /\ method' = [method EXCEPT ![p] = 0]
        /\ Goto(p, back)
        /\ UNCHANGED <<pool, isConnected>>
  /\ UNCHANGED <<store, txn, session, op, req, locals, err, status, clock, submitted>>

\* testConnection is called (health routes of server.js; repeatedly): it
\* calls createPoolWithFallback unless pool && isConnected
TestConnection(p) ==
  /\ pc[p] \in {"idle", "done"} /\ op[p] \in {"none", "testConnection"}
  /\ op' = [op EXCEPT ![p] = "testConnection"]
  /\ res' = [res EXCEPT ![p] = [tried |-> << >>, created |-> "pending", result |-> "pending"]]
  /\ method' = [method EXCEPT ![p] = 0]
  /\ Goto(p, IF pool = 0 \/ ~isConnected THEN "createPool" ELSE "test_query")
  /\ UNCHANGED <<store, txn, session, req, locals, err, status, clock, isConnected, pool,
                 submitted>>

\* testConnection after createPoolWithFallback returned (if (!pool) throw),
\* and the end of its test query; the catch sets isConnected = false
TestConnectionQuery(p) ==
  /\ op[p] = "testConnection"
  /\ \/ /\ pc[p] = "test_resume" /\ pool = 0
        /\ isConnected' = FALSE
        /\ res' = [res EXCEPT ![p].result = "false"]
        /\ Goto(p, "done")
     \/ /\ pc[p] = "test_resume" /\ pool # 0
        /\ Goto(p, "test_query")
        /\ UNCHANGED <<isConnected, res>>
     \/ /\ pc[p] = "test_query"
        /\ res' = [res EXCEPT ![p].result = "true"]
        /\ Goto(p, "done")
        /\ UNCHANGED isConnected
     \/ /\ pc[p] = "test_query"
        /\ isConnected' = FALSE
        /\ res' = [res EXCEPT ![p].result = "false"]
        /\ Goto(p, "done")
  /\ UNCHANGED <<store, txn, session, op, req, locals, err, status, clock, pool, method,
                 submitted>>

\* the module has just been loaded: no pool, isConnected false
InitPool ==
  /\ users = {}
  /\ subs = NoRows
  /\ pendUsers = [p \in Procs |-> {}]
  /\ pendSubs = [p \in Procs |-> NoRows]
  /\ inTxn = [p \in Procs |-> FALSE]
  /\ didCommit = [p \in Procs |-> FALSE]
  /\ acquired = [p \in Procs |-> 0]
  /\ released = [p \in Procs |-> 0]
  /\ pc = [p \in Procs |-> "idle"]
  /\ op = [p \in Procs |-> "none"]
  /\ req = [p \in Procs |-> NoReq]
  /\ userId = [p \in Procs |-> 0]
  /\ attempts = [p \in Procs |-> 0]
  /\ idx = [p \in Procs |-> 0]
  /\ err = [p \in Procs |-> NoErr]
  /\ status = [p \in Procs |-> 0]
  /\ res = [p \in Procs |-> NoRes]
  /\ clock = 1
  /\ isConnected = FALSE
  /\ pool = 0
  /\ method = [p \in Procs |-> 0]
  /\ submitted = [p \in Procs |-> 0]

\* the initialisation of the module and the calls of testConnection
NextPool ==
  \/ CreatePoolWithFallback(Creator)
  \/ TestConnection(Reader)
  \/ TestConnectionQuery(Reader)
  \/ \E p \in Procs : CreatePoolTry(p)

SpecPool == InitPool /\ [][NextPool]_vars

\* createUser requests over a store that holds users, the pool connected
\* or not
NextProvider ==
  \E p \in Procs :
    \/ CreateUser(p)
    \/ CreateGetConnection(p)
    \/ CreateBegin(p)
    \/ CreateIsIdExists(p)
    \/ CreateInsertUser(p)
    \/ CreateInsertAccount(p)
    \/ CreateInsertAddress(p)
    \/ CreateInsertPreferences(p)
    \/ CreateInsertProfile(p)
    \/ CreateCommit(p)
    \/ CreateReadBack(p)
    \/ CreateRollback(p)

SpecProvider == InitSub /\ [][NextProvider]_vars

\* the answer of the error middleware without its message text: the status
\* and the properties error and code of the body
Reported(e) ==
  IF e.code = "ER_DUP_ENTRY"
    THEN [status |-> 409, error |-> "Duplicate entry. Username or email already exists."]
  ELSE IF e.code = "ER_NO_REFERENCED_ROW_2"
    THEN [status |-> 400, error |-> "Invalid user ID. User does not exist."]
  ELSE IF e.code = "ECONNREFUSED"
    THEN [status |-> 500, error |-> "Database connection failed"]
  ELSE [status |-> 500, error |-> "Internal server error", code |-> e.code]

\* ------------------------------------------- GET /users/search (search)
\* decimal texts that parseInt reads as a number; any other text gives NaN
Numerals == [s \in {"0", "1", "2", "3", "-2", "100", "101", "500", "2abc"} |->
               CASE s = "0" -> 0 [] s = "1" -> 1 [] s = "2" -> 2 [] s = "3" -> 3
                 [] s = "-2" -> 0 - 2 [] s = "100" -> 100 [] s = "101" -> 101
                 [] s = "500" -> 500 [] s = "2abc" -> 2]

\* parseInt(v) || d
ParseIntOr(v, d) ==
  IF v \in DOMAIN Numerals /\ Numerals[v] # 0 THEN Numerals[v] ELSE d

\* const page, limit, offset
PageOf(query) == ParseIntOr(query.page, 1)
LimitOf(query) == ParseIntOr(query.limit, 10)
OffsetOf(query) == (PageOf(query) - 1) * LimitOf(query)

\* the statement text, one element per line or appended clause
SelectList == "SELECT u.*, ua.status, ua.role, ua.subscription, uad.city, uad.province"
CountList == "SELECT COUNT(DISTINCT u.id) as total"
MainQuery ==
  << SelectList, "FROM users u",
     "LEFT JOIN user_accounts ua ON u.id = ua.user_id",
     "LEFT JOIN user_addresses uad ON u.id = uad.user_id",
     "WHERE 1=1" >>
LikeClause == "AND (u.username LIKE ? OR u.email LIKE ? OR u.first_name LIKE ? OR u.last_name LIKE ?)"
PageClause == "ORDER BY u.created_at DESC LIMIT ? OFFSET ?"

\* the criteria in the order of the if statements, with the clause of each
Criteria ==
  << [name |-> "q", clause |-> LikeClause],
     [name |-> "status", clause |-> "AND ua.status = ?"],
     [name |-> "role", clause |-> "AND ua.role = ?"],
     [name |-> "subscription", clause |-> "AND ua.subscription = ?"],
     [name |-> "city", clause |-> "AND uad.city = ?"],
     [name |-> "province", clause |-> "AND uad.province = ?"] >>

\* query and params after the first n if statements; q pushes its search
\* term four times, the other criteria their value
RECURSIVE Filtered(_, _)
Filtered(query, n) ==
  IF n = 0 THEN [text |-> MainQuery, params |-> << >>]
  ELSE LET before == Filtered(query, n - 1)
           c == Criteria[n]
           searchTerm == Str("%" \o query[c.name] \o "%")
           pushed == IF c.name = "q"
                       THEN << searchTerm, searchTerm, searchTerm, searchTerm >>
                       ELSE << Str(query[c.name]) >>
       IN IF Falsy(query[c.name]) THEN before
          ELSE [text |-> Append(before.text, c.clause),
                params |-> before.params \o pushed]

\* text.replace(pattern, replacement) for a pattern that is one element
RECURSIVE ReplaceFirst(_, _, _)
ReplaceFirst(text, pattern, replacement) ==
  IF text = << >> THEN << >>
  ELSE IF Head(text) = pattern THEN << replacement >> \o Tail(text)
  ELSE << Head(text) >> \o ReplaceFirst(Tail(text), pattern, replacement)

\* variant: the count statement is built from the unfiltered query
CountStatementUnfiltered(query) ==
  [text |-> ReplaceFirst(MainQuery, SelectList, CountList), params |-> << >>]

\* countQuery and countParams
CountStatement(query) ==
  LET f == Filtered(query, Len(Criteria))
  IN [text |-> ReplaceFirst(f.text, SelectList, CountList), params |-> f.params]

\* query and params after the pagination clause is added
PageStatement(query) ==
  LET f == Filtered(query, Len(Criteria))
  IN [text |-> Append(f.text, PageClause),
      params |-> f.params \o << Num(LimitOf(query)), Num(OffsetOf(query)) >>]

\* value LIKE pattern, for the values and the pattern of the requests
Like(value, pattern) == <<value, pattern>> \in {<<"alice", "%ali%">>}

\* the WHERE of a statement on a joined row: each appended clause is
\* evaluated with the parameters bound to its placeholders
RECURSIVE WhereHolds(_, _, _)
WhereHolds(text, params, jr) ==
  LET ClauseHolds(clause, binds) ==
        CASE clause = LikeClause ->
               \/ Like(jr.u.username, binds[1].str) \/ Like(jr.u.email, binds[2].str)
               \/ Like(jr.u.first_name, binds[3].str) \/ Like(jr.u.last_name, binds[4].str)
          [] clause = "AND ua.status = ?" -> jr.ua # NULL /\ jr.ua.status = binds[1].str
          [] clause = "AND ua.role = ?" -> jr.ua # NULL /\ jr.ua.role = binds[1].str
          [] clause = "AND ua.subscription = ?" -> jr.ua # NULL /\ jr.ua.subscription = binds[1].str
          [] clause = "AND uad.city = ?" -> jr.uad # NULL /\ jr.uad.city = binds[1].str
          [] clause = "AND uad.province = ?" -> jr.uad # NULL /\ jr.uad.province = binds[1].str
          [] OTHER -> TRUE
      Placeholders(clause) ==
        IF clause = LikeClause THEN 4
        ELSE IF clause = PageClause THEN 2
        ELSE IF clause \in {Criteria[n].clause : n \in 1..Len(Criteria)} THEN 1
        ELSE 0
  IN IF text = << >> THEN TRUE
     ELSE LET n == Placeholders(Head(text)) IN
          /\ Head(text) = PageClause \/ ClauseHolds(Head(text), SubSeq(params, 1, n))
          /\ WhereHolds(Tail(text), SubSeq(params, n + 1, Len(params)), jr)

\* the rows of users u LEFT JOIN user_accounts ua LEFT JOIN user_addresses
\* uad that the WHERE of a statement keeps
Selected(stmt) ==
  LET LeftJoin(rows, id) ==
        IF \E r \in rows : r.user_id = id THEN {r \in rows : r.user_id = id} ELSE {NULL}
      JoinedRows ==
        UNION { { [u |-> u, ua |-> a, uad |-> d] :
                    a \in LeftJoin(subs["user_accounts"], u.id),
                    d \in LeftJoin(subs["user_addresses"], u.id) } : u \in users }
  IN {jr \in JoinedRows : WhereHolds(stmt.text, stmt.params, jr)}

\* the results ORDER BY u.created_at DESC LIMIT limit OFFSET offset can give
Slices(rows, limit, offset) ==
  { D \in SUBSET rows :
      \E before \in SUBSET (rows \ D) :
        /\ Cardinality(before) = (IF offset < Cardinality(rows) THEN offset ELSE Cardinality(rows))
        /\ \A b \in before : \A r \in rows \ before : b.u.created_at >= r.u.created_at
        /\ \A d \in D : \A r \in rows \ (before \cup D) : d.u.created_at >= r.u.created_at
        /\ Cardinality(D) = (IF Cardinality(rows \ before) < limit
                               THEN Cardinality(rows \ before) ELSE limit) }

\* the values the columns of user_accounts admit
Enumerations ==
  [status |-> {"active", "inactive", "suspended"},
   role |-> {"user", "admin", "moderator", "editor"},
   subscription |-> {"free", "basic", "premium", "enterprise"}]

\* req.query of the search requests: every combination of present and
\* absent criteria, one value outside each enumeration, and without
\* criteria the page and limit inputs
Search(p) ==
  /\ pc[p] = "idle"
  /\ LET SearchInputs ==
         LET none == [q |-> UNDEF, status |-> UNDEF, role |-> UNDEF, subscription |-> UNDEF,
                      city |-> UNDEF, province |-> UNDEF]
             criteria ==
               [q : {UNDEF, "ali"}, status : {UNDEF, "active"}, role : {UNDEF, "admin"},
                subscription : {UNDEF, "free"}, city : {UNDEF, "Jakarta"},
                province : {UNDEF, "DKI Jakarta"}]
             outside ==
               { [none EXCEPT !.status = "bogus"], [none EXCEPT !.role = "bogus"],
                 [none EXCEPT !.subscription = "bogus"] }
             pages == {UNDEF, "abc", "0", "-2", "1", "2", "3"}
             limits == {UNDEF, "abc", "0", "-2", "1", "2", "2abc", "500"}
             Query(c, page, limit) ==
               [q |-> c.q, status |-> c.status, role |-> c.role, subscription |-> c.subscription,
                city |-> c.city, province |-> c.province, page |-> page, limit |-> limit]
         IN {Query(c, UNDEF, UNDEF) : c \in criteria \cup outside}
            \cup {Query(none, pg, lm) : pg \in pages, lm \in limits}
     IN \E query \in SearchInputs :
          /\ op' = [op EXCEPT ![p] = "search"]
          /\ req' = [req EXCEPT ![p] = query]
  /\ Goto(p, "search_count")
  /\ UNCHANGED <<store, txn, session, locals, err, status, res, env>>

\* a failing statement is caught by the handler and answered with 500
SearchFailed(p, errs) ==
  /\ \E e \in errs : err' = [err EXCEPT ![p] = e]
  /\ Respond(p, 500)
  /\ UNCHANGED res

\* await pool.execute(countQuery, countParams)
SearchCount(p) ==
  /\ pc[p] = "search_count" /\ op[p] = "search"
  /\ \/ /\ LET CountDistinct(stmt) == Cardinality({jr.u.id : jr \in Selected(stmt)})
           IN res' = [res EXCEPT ![p] = [total |-> CountDistinct(CountStatement(req[p]))]]
        /\ Goto(p, "search_page")
        /\ UNCHANGED <<err, status, locals>>
     \/ SearchFailed(p, FailErrs)
  /\ UNCHANGED <<store, txn, session, op, req, env>>

\* await pool.execute(query, params), then res.json
SearchPage(p) ==
  /\ pc[p] = "search_page" /\ op[p] = "search"
  /\ LET limit == LimitOf(req[p])
         offset == OffsetOf(req[p])
     IN
     \/ /\ limit >= 0 /\ offset >= 0
        /\ \E D \in Slices(Selected(PageStatement(req[p])), limit, offset) :
             res' = [res EXCEPT ![p] =
                       [data |-> D, page |-> PageOf(req[p]), limit |-> limit,
                        total |-> res[p].total]]
        /\ Respond(p, 200)
        /\ UNCHANGED err
     \/ /\ limit < 0 \/ offset < 0
        /\ SearchFailed(p, {[code |-> "ER_PARSE_ERROR", message |-> "sql"]})
     \/ SearchFailed(p, FailErrs)
  /\ UNCHANGED <<store, txn, session, op, req, env>>

\* ------------------------------------------------- GET /users (list users)
\* page after "Safely parse page": a query value that is absent or empty,
\* that parseInt gives NaN for, or that is not positive leaves page at 1
ListPageOf(query) ==
  IF query.page \in DOMAIN Numerals /\ Numerals[query.page] > 0
    THEN Numerals[query.page] ELSE 1

\* variant: the upper bound of the limit is not tested
ListLimitOfUnbounded(query) ==
  IF query.limit \in DOMAIN Numerals /\ Numerals[query.limit] > 0
    THEN Numerals[query.limit] ELSE 10

\* limit after "Safely parse limit"
ListLimitOf(query) ==
  IF /\ query.limit \in DOMAIN Numerals
     /\ Numerals[query.limit] > 0 /\ Numerals[query.limit] <= 100
    THEN Numerals[query.limit] ELSE 10

ListUsers(p) ==
  /\ pc[p] = "idle"
  /\ \E page \in {UNDEF, "", "abc", "0", "-2", "1", "2", "3"},
        limit \in {UNDEF, "", "abc", "0", "-2", "1", "2", "2abc", "100", "101", "500"} :
       req' = [req EXCEPT ![p] = [page |-> page, limit |-> limit]]
  /\ op' = [op EXCEPT ![p] = "listUsers"]
  /\ Goto(p, "list_page")
  /\ UNCHANGED <<store, txn, session, locals, err, status, res, env>>

\* SELECT u.*, ua.status, ua.role, ua.subscription FROM users u LEFT JOIN
\* user_accounts ua ... ORDER BY u.created_at DESC LIMIT ? OFFSET ?; the
\* bound safeOffset is kept beside the rows
ListUsersPage(p) ==
  /\ pc[p] = "list_page" /\ op[p] = "listUsers"
  /\ LET limit == ListLimitOf(req[p])
         offset == (ListPageOf(req[p]) - 1) * limit
         accounts(u) == {a \in subs["user_accounts"] : a.user_id = u.id}
         rows == UNION { { [u |-> u, ua |-> a] :
                            a \in IF accounts(u) = {} THEN {NULL} ELSE accounts(u) } :
                         u \in users }
     IN
     \/ /\ \E D \in Slices(rows, limit, offset) :
             res' = [res EXCEPT ![p] = [data |-> D, offset |-> offset]]
        /\ Goto(p, "list_count")
        /\ UNCHANGED <<err, status, locals>>
     \/ SearchFailed(p, FailErrs)
  /\ UNCHANGED <<store, txn, session, op, req, env>>

\* SELECT COUNT(*) as count FROM users, then res.json
ListUsersCount(p) ==
  /\ pc[p] = "list_count" /\ op[p] = "listUsers"
  /\ LET page == ListPageOf(req[p])
         safeLimit == ListLimitOf(req[p])
         total == Cardinality(users)
     IN
     \/ /\ res' = [res EXCEPT ![p] =
                     [data |-> res[p].data, offset |-> res[p].offset,
                      page |-> page, limit |-> safeLimit, total |-> total,
                      totalPages |-> (total + safeLimit - 1) \div safeLimit,
                      hasNext |-> (page * safeLimit) < total,
                      hasPrev |-> page > 1]]
        /\ Respond(p, 200)
        /\ UNCHANGED err
     \/ SearchFailed(p, FailErrs)
  /\ UNCHANGED <<store, txn, session, op, req, env>>

\* one client lists the users while the other deletes one
NextList ==
  \/ ListUsers(Reader)
  \/ ListUsersPage(Reader)
  \/ ListUsersCount(Reader)
  \/ DeleteUser(Creator)
  \/ DeleteUserExecute(Creator)

\* list requests over a store that holds users
SpecList == InitUpdate /\ [][NextList]_vars

\* one client creates a sub-record, the other searches; the store does not
\* change while a search is under way
NextSearch ==
  \/ pc[Creator] # "execute" /\ Search(Reader)
  \/ SearchCount(Reader)
  \/ SearchPage(Reader)
  \/ pc[Reader] = "idle" /\ CreateSubRecord(Creator)
  \/ pc[Reader] = "idle" /\ ProviderExecute(Creator)

\* search requests over a store that holds users
SpecSearch == InitUpdate /\ [][NextSearch]_vars

\* ============================================================== properties
UsersBy(p) == {u \in users : u.by = p}
SubsBy(p, t) == {r \in subs[t] : r.by = p}
NoRowsBy(p) == UsersBy(p) = {} /\ \A t \in SubTables : SubsBy(p, t) = {}

\* the core row of createUser call p and one row of its user per payload
AllRowsBy(p) ==
  /\ \E u \in users : UsersBy(p) = {u} /\ u.username = req[p].username /\ u.email = req[p].email
  /\ \A t \in SubTables :
       IF Truthy(Payload(req[p], t))
         THEN \E r \in subs[t] : SubsBy(p, t) = {r} /\ \A u \in UsersBy(p) : r.user_id = u.id
         ELSE SubsBy(p, t) = {}

\* C1: createUser is all-or-nothing.  No row written by a createUser call is
\* in the store unless the COMMIT of that call succeeded (so a call that
\* failed at any step before it leaves nothing), and the step that commits
\* puts the core row and one row for every provided payload in the store.
CreateUserAllOrNothing ==
  /\ [](\A p \in Procs : (op[p] = "createUser" /\ ~didCommit[p]) => NoRowsBy(p))
  /\ [][\A p \in Procs :
          (op[p] = "createUser" /\ ~didCommit[p] /\ didCommit'[p])
            => (pc[p] = "commit" /\ err[p] = NoErr /\ AllRowsBy(p)')]_vars

\* C1 witness: a createUser call failed at COMMIT after inserting the core
\* row and all four sub-records; none of them is in the store
CreateUserFailedAfterInserts ==
  \E p \in Procs :
    /\ op[p] = "createUser" /\ pc[p] = "rollback" /\ ~didCommit[p]
    /\ pendUsers[p] # {} /\ \A t \in SubTables : pendSubs[p][t] # {}
    /\ NoRowsBy(p)

\* C2: createUsersBulk is all-or-nothing for the batch.  No row of a batch is
\* in the store unless the COMMIT of the batch succeeded, a batch in which an
\* item failed never commits, and the step that commits puts one row for
\* every item of the list in the store.
BulkAllOrNothing ==
  /\ [](\A p \in Procs : (op[p] = "createUsersBulk" /\ ~didCommit[p]) => UsersBy(p) = {})
  /\ [](\A p \in Procs : (op[p] = "createUsersBulk" /\ err[p] # NoErr) => ~didCommit[p])
  /\ [][\A p \in Procs :
          (op[p] = "createUsersBulk" /\ ~didCommit[p] /\ didCommit'[p])
            => /\ pc[p] = "commit"
               /\ Cardinality(UsersBy(p)') = Len(req[p].users)
               /\ \A i \in 1..Len(req[p].users) :
                    \E u \in UsersBy(p)' : /\ u.username = req[p].users[i].username
                                           /\ u.email = req[p].users[i].email]_vars

\* C2 witness: the second item of a batch collided with the first item of the
\* same batch; the batch is being rolled back with nothing committed
BulkSecondItemFailed ==
  \E p \in Procs :
    /\ op[p] = "createUsersBulk" /\ pc[p] = "rollback" /\ err[p] = DupEntry
    /\ Cardinality(pendUsers[p]) = 1 /\ users = {}

\* C3: no two committed users rows have the same identifier.
UniqueIdentifiers ==
  \A u \in users : \A v \in users : u.id = v.id => u = v

\* C3 witness: the existence check of p found its candidate free, and before
\* p's INSERT another call committed a row with that identifier
CheckThenInsertRace ==
  \E p \in Procs :
    /\ pc[p] = "users" /\ \E u \in users : u.id = userId[p] /\ u.by # p
    /\ Cardinality(users) = 2

\* C4: every session acquired by createUser or createUsersBulk has been
\* released exactly once when the call has ended.
SessionReleasedExactlyOnce ==
  \A p \in Procs :
    /\ released[p] <= acquired[p]
    /\ (pc[p] = "done" /\ op[p] \in {"createUser", "createUsersBulk"})
         => released[p] = acquired[p]

\* C5: identifier reservation.  An existence check is awaited only with
\* attempts in 1..10 (at most 10 checks); a check that finds the candidate
\* absent ends the loop with that candidate, which is the id of the row
\* inserted; a check that finds it present generates the next candidate, and
\* the exhaustion error is thrown exactly when the 10th check finds its
\* candidate present; a call that threw it commits nothing.
ReservationBounded ==
  /\ [](\A p \in Procs : pc[p] = "isIdExists" => attempts[p] \in 1..maxAttempts)
  /\ [](\A p \in Procs : err[p] = ExhaustedErr => (~didCommit[p] /\ UsersBy(p) = {}))
  /\ [][\A p \in Procs :
          LET exists == \E u \in users \cup pendUsers[p] : u.id = userId[p]
              stepped == pc'[p] # "isIdExists" \/ attempts'[p] # attempts[p]
          IN /\ (pc[p] = "isIdExists" /\ stepped /\ ~exists)
                  => \/ pc'[p] = "users" /\ userId'[p] = userId[p]
                     \/ pc'[p] = "rollback" /\ err'[p] \in FailErrs
             /\ (pc[p] = "isIdExists" /\ stepped /\ exists)
                  => \/ /\ attempts[p] < maxAttempts
                        /\ pc'[p] = "isIdExists" /\ attempts'[p] = attempts[p] + 1
                     \/ /\ attempts[p] = maxAttempts
                        /\ pc'[p] = "rollback" /\ err'[p] = ExhaustedErr
                     \/ pc'[p] = "rollback" /\ err'[p] \in FailErrs
             /\ (err[p] # ExhaustedErr /\ err'[p] = ExhaustedErr)
                  => (pc[p] = "isIdExists" /\ exists /\ attempts[p] = maxAttempts)
             /\ \A u \in pendUsers'[p] \ pendUsers[p] : u.id = userId[p]]_vars

\* C5 witness: a call ended with the exhaustion error, nothing of it committed
ReservationExhausted ==
  \E p \in Procs :
    /\ pc[p] = "done" /\ err[p] = ExhaustedErr /\ status[p] = 500
    /\ released[p] = 1 /\ UsersBy(p) = {}

\* C6: a createUser call whose INSERT meets a users row with the same
\* username or email never inserts: the statement is rejected, the store is
\* unchanged by it and the call goes to rollback; a call that ends with the
\* duplicate-entry error has answered 409 and has no row in any table.
DuplicateKeyReported ==
  /\ [](\A p \in Procs :
          (op[p] = "createUser" /\ pc[p] = "done" /\ err[p] = DupEntry)
            => (status[p] = 409 /\ ~didCommit[p] /\ NoRowsBy(p)))
  /\ [][\A p \in Procs :
          (/\ op[p] = "createUser" /\ pc[p] = "users" /\ pc'[p] # "users"
           /\ \E u \in users : u.username = req[p].username \/ u.email = req[p].email)
            => /\ pc'[p] = "rollback"
               /\ err'[p] \in {DupEntry} \cup FailErrs
               /\ pendUsers'[p] = {}
               /\ users' = users /\ subs' = subs]_vars

\* C6 witness: a createUser call with the email of a row committed by another
\* call has ended with 409
DuplicateRejected ==
  \E p \in Procs : \E u \in users :
    /\ op[p] = "createUser" /\ pc[p] = "done" /\ err[p] = DupEntry /\ status[p] = 409
    /\ u.by # p /\ u.email = req[p].email

SlotOf(v, t) ==
  CASE t = "user_accounts" -> v.account
    [] t = "user_addresses" -> v.address
    [] t = "user_preferences" -> v.preferences
    [] t = "user_profiles" -> v.profile

LookupOf(t) ==
  CASE t = "user_accounts" -> "select_user_accounts"
    [] t = "user_addresses" -> "select_user_addresses"
    [] t = "user_preferences" -> "select_user_preferences"
    [] t = "user_profiles" -> "select_user_profiles"

\* C7: round trip createUser then getUser.  A composite that getUser returned
\* for the user of a createUser call has, for a payload present in the input,
\* the sub-record with the given fields and with status active, role user,
\* subscription free, language en, timezone Asia/Jakarta, notify_email 1,
\* notify_sms 0, notify_push 1 in the omitted ones, and for a payload absent
\* from the input null in that slot.
RoundTripDefaults ==
  \A g \in Procs : \A c \in Procs :
    (/\ op[g] = "getUser" /\ pc[g] = "done" /\ status[g] = 200
     /\ op[c] = "createUser" /\ res[g].user.by = c)
      => LET b == req[c]
             v == res[g]
         IN /\ \A t \in SubTables : Truthy(Payload(b, t)) <=> SlotOf(v, t) # NULL
            /\ \A t \in SubTables : SlotOf(v, t) # NULL => SlotOf(v, t).user_id = v.user.id
            /\ Truthy(b.account)
                 => /\ b.account.status = UNDEF => v.account.status = "active"
                    /\ b.account.role = UNDEF => v.account.role = "user"
                    /\ b.account.subscription = UNDEF => v.account.subscription = "free"
            /\ Truthy(b.preferences)
                 => /\ b.preferences.language = UNDEF => v.preferences.language = "en"
                    /\ b.preferences.timezone = UNDEF => v.preferences.timezone = "Asia/Jakarta"
                    /\ b.preferences.notify_email = UNDEF => v.preferences.notify_email = 1
                    /\ b.preferences.notify_sms = UNDEF => v.preferences.notify_sms = 0
                    /\ b.preferences.notify_push = UNDEF => v.preferences.notify_push = 1
            /\ Truthy(b.address)
                 => \A f \in DOMAIN b.address : v.address[f] = b.address[f]
            /\ Truthy(b.profile)
                 => \A f \in DOMAIN b.profile : v.profile[f] = b.profile[f]

\* C7 witness: getUser returned the user of a createUser call that gave an
\* account payload with only the role, and no preferences payload
RoundTripPartialAccount ==
  /\ op[Reader] = "getUser" /\ pc[Reader] = "done" /\ status[Reader] = 200
  /\ op[Creator] = "createUser" /\ res[Reader].user.by = Creator
  /\ Truthy(req[Creator].account)
  /\ req[Creator].account.status = UNDEF /\ req[Creator].account.role = "admin"
  /\ res[Reader].account # NULL /\ res[Reader].account.status = "active"
  /\ ~Truthy(req[Creator].preferences) /\ res[Reader].preferences = NULL

\* C8: defaults apply only to omitted fields.  In every account or
\* preferences row a createUser call committed, a field the payload gave
\* explicitly holds the given value (for a notification flag: 1 for true/1,
\* 0 for false/0).
ExplicitFieldsStored ==
  \A c \in Procs :
    (op[c] = "createUser" /\ didCommit[c])
      => /\ \A r \in SubsBy(c, "user_accounts") :
              \A f \in {"status", "role", "subscription"} :
                req[c].account[f] # UNDEF => r[f] = req[c].account[f]
         /\ \A r \in SubsBy(c, "user_preferences") :
              /\ \A f \in {"language", "timezone"} :
                   req[c].preferences[f] # UNDEF => r[f] = req[c].preferences[f]
              /\ \A f \in {"notify_email", "notify_sms", "notify_push"} :
                   req[c].preferences[f] # UNDEF
                     => r[f] = (IF req[c].preferences[f] \in {"true", "1"} THEN 1 ELSE 0)

\* C9: getUser(id) answers 404 exactly when its core lookup finds no users
\* row with that id (a lookup that fails answers 500); each sub-record lookup
\* leaves in its slot null when the table has no row with user_id = id at
\* that moment and such a row otherwise; a returned composite has the id
\* asked for and in each slot null or a row with that user_id.
GetUserComposite ==
  /\ [][\A p \in Procs :
          (op[p] = "getUser" /\ pc[p] = "select_users" /\ pc'[p] # "select_users")
            => LET present == \E u \in users : u.id = req[p].id IN
               /\ ~present => /\ pc'[p] = "done"
                              /\ \/ status'[p] = 404 /\ err'[p] = NoErr
                                 \/ status'[p] = 500 /\ err'[p] \in FailErrs
               /\ present => \/ /\ pc'[p] = "select_user_accounts"
                                /\ res'[p].user \in users /\ res'[p].user.id = req[p].id
                             \/ /\ pc'[p] = "done"
                                /\ status'[p] = 500 /\ err'[p] \in FailErrs]_vars
  /\ [][\A p \in Procs : \A t \in SubTables :
          (op[p] = "getUser" /\ pc[p] = LookupOf(t) /\ pc'[p] # pc[p] /\ err'[p] = NoErr)
            => LET rows == {r \in subs[t] : r.user_id = req[p].id} IN
               IF rows = {} THEN SlotOf(res'[p], t) = NULL
                            ELSE SlotOf(res'[p], t) \in rows]_vars
  /\ [](\A p \in Procs :
          (op[p] = "getUser" /\ pc[p] = "done" /\ status[p] = 200)
            => /\ res[p].user.id = req[p].id
               /\ \A t \in SubTables :
                    \/ SlotOf(res[p], t) = NULL
                    \/ /\ "user_id" \in DOMAIN SlotOf(res[p], t)
                       /\ SlotOf(res[p], t).user_id = req[p].id)

\* C9 witness: one getUser returned a user with its account and its profile,
\* and another getUser answered 404 for an id that no users row has
GetUserFoundAndNotFound ==
  \E p \in Procs : \E q \in Procs :
    /\ op[p] = "getUser" /\ pc[p] = "done" /\ status[p] = 200
    /\ res[p].account # NULL /\ res[p].profile # NULL
    /\ op[q] = "getUser" /\ pc[q] = "done" /\ status[q] = 404
    /\ ~\E u \in users : u.id = req[q].id

\* C10: the DELETE of deleteUser(id) is one step.  Answering 200 it found a
\* users row with that id and leaves no users row with the id and no row with
\* that user_id in any of the four tables, every other row untouched;
\* answering 404 it found no such row and changed nothing; a getUser whose
\* core lookup runs while no users row has the id answers 404.
DeleteUserCascades ==
  /\ [][\A p \in Procs :
          (op[p] = "deleteUser" /\ pc[p] = "delete_users" /\ pc'[p] = "done")
            => LET id == req[p].id
                   present == \E u \in users : u.id = id
               IN /\ status'[p] \in {200, 404, 500}
                  /\ status'[p] = 200
                       => /\ present
                          /\ users' = {u \in users : u.id # id}
                          /\ \A t \in SubTables : subs'[t] = {r \in subs[t] : r.user_id # id}
                  /\ status'[p] = 404 => (~present /\ users' = users /\ subs' = subs)
                  /\ status'[p] = 500 => (err'[p] \in FailErrs /\ users' = users /\ subs' = subs)
                  /\ present => status'[p] # 404
                  /\ ~present => status'[p] # 200]_vars
  /\ [][\A g \in Procs :
          (/\ op[g] = "getUser" /\ pc[g] = "select_users" /\ pc'[g] # "select_users"
           /\ err'[g] = NoErr /\ ~\E u \in users : u.id = req[g].id)
            => (pc'[g] = "done" /\ status'[g] = 404)]_vars
  /\ [](\A p \in Procs :
          (op[p] = "deleteUser" /\ pc[p] = "done" /\ status[p] = 200)
            => \A t \in SubTables : \A r \in subs[t] :
                 r.user_id = req[p].id => \E u \in users : u.id = r.user_id)

\* C10 witness: a user that had all four sub-records was deleted, a getUser
\* on the same id has answered 404 and no row of that user is left
DeletedThenNotFound ==
  \E d \in Procs : \E g \in Procs :
    /\ op[d] = "deleteUser" /\ pc[d] = "done" /\ status[d] = 200
    /\ op[g] = "getUser" /\ pc[g] = "done" /\ status[g] = 404
    /\ req[g].id = req[d].id
    /\ \A t \in SubTables : \A r \in subs[t] : r.user_id # req[d].id
    /\ \E u \in users : \A t \in SubTables : \E r \in subs[t] : r.user_id = u.id

\* C11: the UPDATE of updateUser(id, patch) is one step that leaves every
\* sub-record row and every other users row as it was and, in the row with
\* that id, sets each whitelisted column that is a key of the patch to the
\* given value and updated_at to the time of the statement, every other
\* column (also one named by a key outside the whitelist) keeping its value;
\* a statement that is rejected changes nothing.
UpdateOnlyWhitelisted ==
  [][\A p \in Procs :
       (op[p] = "updateUser" /\ pc[p] = "patch_update" /\ pc'[p] = "done")
         => LET id == req[p].id
                given(f) == {ValueOf(kv.value) : kv \in {x \in req[p].updates : x.key = f}}
            IN /\ subs' = subs
               /\ {u \in users' : u.id # id} = {u \in users : u.id # id}
               /\ status'[p] # 200 => users' = users
               /\ status'[p] = 200
                    => /\ Cardinality(users') = Cardinality(users)
                       /\ \A u \in users : u.id = id =>
                            \E v \in users' :
                              /\ v.id = id
                              /\ \A f \in DOMAIN u :
                                   IF f \in Whitelist /\ given(f) # {} THEN v[f] \in given(f)
                                   ELSE IF f = "updated_at" THEN v[f] = clock
                                   ELSE v[f] = u[f]]_vars

\* C11 witness: a patch with username and unknownField was applied at time 2
\* to a row written at time 1
UpdatedUsernameOnly ==
  \E p \in Procs : \E u \in users :
    /\ op[p] = "updateUser" /\ pc[p] = "done" /\ status[p] = 200
    /\ \E kv \in req[p].updates : kv.key = "unknownField"
    /\ u.id = req[p].id /\ u.username = "new" /\ u.email = "a@x.io"
    /\ u.created_at = 1 /\ u.updated_at = 2

\* C12: updateUser answers 404 when its lookup finds no users row with the
\* id and 400 when it finds one and the patch has no whitelisted key; the
\* call then ends without an UPDATE, the store (updated_at included) is as it
\* was, and a call that goes on to the UPDATE had a row and a whitelisted key.
UpdateRejections ==
  [][\A p \in Procs :
       (op[p] = "updateUser" /\ pc[p] = "patch_select" /\ pc'[p] # "patch_select")
         => LET present == \E u \in users : u.id = req[p].id
                listed == \E kv \in req[p].updates : kv.key \in Whitelist
            IN /\ users' = users /\ subs' = subs
               /\ ~present
                    => /\ pc'[p] = "done"
                       /\ status'[p] = 404 \/ (status'[p] = 500 /\ err'[p] \in FailErrs)
               /\ (present /\ ~listed)
                    => /\ pc'[p] = "done"
                       /\ status'[p] = 400 \/ (status'[p] = 500 /\ err'[p] \in FailErrs)
               /\ (present /\ listed)
                    => \/ pc'[p] = "patch_update"
                       \/ pc'[p] = "done" /\ status'[p] = 500 /\ err'[p] \in FailErrs]_vars

\* C12 witness: after time has passed, one call was answered 404 and another
\* 400 for a row that still has the modification time it was written with
UpdateNotFoundAndEmptyPatch ==
  \E p \in Procs : \E q \in Procs : \E u \in users :
    /\ op[p] = "updateUser" /\ pc[p] = "done" /\ status[p] = 404
    /\ ~\E v \in users : v.id = req[p].id
    /\ op[q] = "updateUser" /\ pc[q] = "done" /\ status[q] = 400
    /\ \E kv \in req[q].updates : kv.key = "unknownField"
    /\ u.id = req[q].id /\ u.updated_at = 1 /\ clock = 2

\* C13: whatever criteria a search request carries, its count statement and
\* its page statement have the same joins, the same WHERE predicates in the
\* same order and the same filter parameters; the page statement differs by
\* its select list and by the appended ORDER BY / LIMIT / OFFSET clause with
\* the two parameters limit and offset.
CountAndPageShareFilters ==
  \A p \in Procs :
    op[p] = "search" =>
      LET c == CountStatement(req[p])
          g == PageStatement(req[p])
      IN /\ Len(g.text) = Len(c.text) + 1
         /\ c.text[1] = CountList /\ g.text[1] = SelectList
         /\ \A i \in 2..Len(c.text) : c.text[i] = g.text[i]
         /\ g.text[Len(g.text)] = PageClause
         /\ \A i \in 1..Len(c.text) : c.text[i] # PageClause
         /\ Len(g.params) = Len(c.params) + 2
         /\ c.params = SubSeq(g.params, 1, Len(c.params))
         /\ SubSeq(g.params, Len(c.params) + 1, Len(g.params))
              = << Num(LimitOf(req[p])), Num(OffsetOf(req[p])) >>

\* a search with the text criterion and two more has run both statements
SearchedWithSeveralCriteria ==
  \E p \in Procs :
    /\ op[p] = "search" /\ pc[p] = "done" /\ status[p] = 200
    /\ req[p].q = "ali" /\ req[p].role = "admin" /\ req[p].city = "Jakarta"
    /\ req[p].status = UNDEF
    /\ Len(CountStatement(req[p]).params) = 6

\* C14: for every page and limit a search request carries, the effective
\* page is 1 when the input is absent or not positive, the effective page
\* size is 10 when absent and never above 100, and the offset is
\* (page - 1) * limit and never negative.  The handler takes
\* parseInt(input) || default, which keeps negative numbers and large sizes.
PaginationNormalised ==
  \A p \in Procs :
    op[p] = "search" =>
      LET query == req[p]
          given == query.page
      IN /\ given = UNDEF => PageOf(query) = 1
         /\ (given \in DOMAIN Numerals /\ Numerals[given] <= 0) => PageOf(query) = 1
         /\ query.limit = UNDEF => LimitOf(query) = 10
         /\ LimitOf(query) <= 100
         /\ OffsetOf(query) = (PageOf(query) - 1) * LimitOf(query)
         /\ OffsetOf(query) >= 0

\* C15: over a store that does not change during the search, the total of
\* an answered search is the number of distinct users matching its criteria
\* (whatever the page); without criteria, page 1 and limit 10 give at most
\* 10 rows and a total equal to the number of users rows; a page beyond the
\* last page gives no rows.  The page statement selects joined rows, one per
\* account and address row of a user, so its pages are cut from more rows
\* than the total counts.
SearchTotals ==
  \A p \in Procs :
    (op[p] = "search" /\ pc[p] = "done" /\ status[p] = 200) =>
      LET query == req[p]
          matching == {jr.u.id : jr \in Selected(CountStatement(query))}
          none == \A n \in 1..Len(Criteria) : query[Criteria[n].name] = UNDEF
      IN /\ res[p].total = Cardinality(matching)
         /\ (none /\ PageOf(query) = 1 /\ LimitOf(query) = 10) =>
              /\ Cardinality(res[p].data) <= 10
              /\ res[p].total = Cardinality(users)
         /\ (LimitOf(query) > 0 /\ OffsetOf(query) >= res[p].total) => res[p].data = {}

\* C16: a search whose status, role or subscription is outside the
\* enumeration of its column is refused (400) before any statement runs and
\* is never answered with a result set.  The handler has no such test: it
\* binds the value and runs both statements.
InvalidCriteriaRefused ==
  \A p \in Procs :
    (/\ op[p] = "search"
     /\ \E k \in DOMAIN Enumerations : req[p][k] \notin Enumerations[k] \cup {UNDEF}) =>
      /\ pc[p] # "search_page"
      /\ pc[p] = "done" => status[p] = 400

\* C17: two failed createUser calls whose errors are of different kinds
\* (duplicate username or email, identifier exhaustion, any other storage
\* or I/O failure) are answered differently in status, error or code, the
\* message text left aside.  The errors the provider throws without a pool
\* carry no code, as the exhaustion error does, and are answered alike.
ErrorKindsDistinguished ==
  LET kind(e) == IF e = DupEntry THEN "DuplicateKey"
                 ELSE IF e = ExhaustedErr THEN "IdentifierExhaustion"
                 ELSE "other"
  IN \A p \in Procs : \A q \in Procs :
       (/\ op[p] = "createUser" /\ pc[p] = "done" /\ err[p] # NoErr
        /\ op[q] = "createUser" /\ pc[q] = "done" /\ err[q] # NoErr
        /\ kind(err[p]) # kind(err[q]))
       => Reported(err[p]) # Reported(err[q])

\* C18: the write statement of a sub-record request or of deleteUser
\* reaches the store at most once per call, also when the provider serves
\* the call over direct connections.  Without a pool the provider's loop
\* catches the error of a rejected statement, or of closing the connection
\* after an accepted one, and sends the statement again with the next
\* connection method.
WritesSubmittedOnce == \A p \in Procs : submitted[p] <= 1

\* C19: in every state each row of the four sub-record tables has the
\* user_id of a users row, and the INSERT of a sub-record create for an id
\* without users row is rejected: it adds no row and the call is not
\* answered with success.
SubRecordsReferenceUsers ==
  /\ [](\A t \in SubTables : \A r \in subs[t] : \E u \in users : u.id = r.user_id)
  /\ [][\A p \in Procs :
          (/\ op[p] = "createSub" /\ pc[p] = "execute"
           /\ ~(\E u \in users : u.id = req[p].id)
           /\ <<pc[p], method[p], submitted[p]>>' # <<pc[p], method[p], submitted[p]>>)
          => /\ subs' = subs
             /\ pc'[p] = "done" => status'[p] \in {400, 500}]_vars

\* a sub-record create for an id without users row was answered 400, the
\* store holding rows of another user
OrphanCreateRejected ==
  \E p \in Procs :
    /\ op[p] = "createSub" /\ pc[p] = "done"
    /\ status[p] = 400 /\ err[p] = NoReferencedRow /\ submitted[p] = 1
    /\ ~(\E u \in users : u.id = req[p].id)
    /\ \A r \in subs[req[p].table] : r.user_id # req[p].id
    /\ users # {}

\* C20: each user has at most one row in each of the four sub-record
\* tables, whatever create, update and delete requests have run.  The
\* tables have no UNIQUE(user_id) and the create routes insert without
\* looking for an existing row, so a second create adds a second row.
OneSubRecordPerUser ==
  \A t \in SubTables : \A r1 \in subs[t] : \A r2 \in subs[t] :
    r1.user_id = r2.user_id => r1 = r2

\* C21: an update or delete of a sub-record of one kind for a user id is
\* answered 404 only when no row of that kind had that user_id, and then
\* has changed nothing.  Served over direct connections, a DELETE that
\* removed the row is sent again when closing its connection fails; the
\* second DELETE matches nothing and the call is answered 404.
NotFoundOnlyWithoutRow ==
  \A p \in Procs :
    (op[p] \in {"updateSub", "deleteSub"} /\ pc[p] = "done" /\ status[p] = 404)
    => ~req[p].had

\* C22: within one createUser call the storage events come in the order
\* begin transaction, existence checks, core insert, the inserts of the
\* provided sub-records (account, address, preferences, profile), commit;
\* none of the provided inserts is left out, and from the first existence
\* check to the commit the call is inside the one transaction on the one
\* session it acquired.
CreateUserOrdered ==
  /\ [](\A p \in Procs :
          (/\ op[p] = "createUser"
           /\ pc[p] \in {"isIdExists", "users", "commit"} \cup SubTables)
          => (inTxn[p] /\ acquired[p] = 1 /\ released[p] = 0))
  /\ [][LET order == << "beginTransaction", "isIdExists", "users", "user_accounts",
                        "user_addresses", "user_preferences", "user_profiles", "commit" >>
            steps == {order[i] : i \in 1..Len(order)}
            rank(l) == CHOOSE i \in 1..Len(order) : order[i] = l
            part == [user_accounts |-> "account", user_addresses |-> "address",
                     user_preferences |-> "preferences", user_profiles |-> "profile"]
        IN \A p \in Procs :
             op[p] = "createUser" =>
               /\ (pc[p] \in steps /\ pc'[p] \in steps /\ pc'[p] # pc[p]) =>
                    /\ rank(pc'[p]) > rank(pc[p])
                    /\ rank(pc[p]) < 3 => rank(pc'[p]) = rank(pc[p]) + 1
                    /\ \A t \in SubTables :
                         (rank(pc[p]) < rank(t) /\ rank(t) < rank(pc'[p]))
                         => ~Truthy(req[p][part[t]])
               /\ pendUsers'[p] \ pendUsers[p] # {} =>
                    /\ pc[p] = "users"
                    /\ \A u \in pendUsers'[p] \ pendUsers[p] : u.id = userId[p]
               /\ \A t \in SubTables :
                    pendSubs'[p][t] \ pendSubs[p][t] # {} =>
                      (pc[p] = t /\ Truthy(req[p][part[t]]))
               /\ (didCommit'[p] /\ ~didCommit[p]) => pc[p] = "commit"]_vars

\* a createUser call with all four sub-records has committed
CreatedWithAllSubRecords ==
  \E p \in Procs :
    /\ op[p] = "createUser" /\ pc[p] = "done" /\ status[p] = 201 /\ didCommit[p]
    /\ \A t \in SubTables : \E r \in subs[t] : r.by = p
    /\ \E u \in users : u.by = p
    /\ ~isConnected

IdImmutable ==
  [][\A p \in Procs :
       (op'[p] \in {"updateUser", "createSub", "updateSub", "deleteSub"} /\ pc'[p] # pc[p])
       => /\ {u.id : u \in users'} = {u.id : u \in users}
          /\ Cardinality(users') = Cardinality(users)
          /\ \A u \in users : \E v \in users' : v.id = u.id /\ v.created_at = u.created_at]_vars

\* a patch with the keys id and phone was applied: the row has the new phone
\* under the id of the request
PatchedWithIdKey ==
  \E p \in Procs :
    /\ op[p] = "updateUser" /\ pc[p] = "done" /\ status[p] = 200
    /\ \E kv \in req[p].updates : kv.key = "id" /\ ValueOf(kv.value) # req[p].id
    /\ \E u \in users : u.id = req[p].id /\ u.phone = "1"

\* C25: generateRandomId returns t * 1000 + r for the millisecond t of the
\* call and some r in 0..999; of two results the one of the earlier
\* millisecond is strictly smaller, so results that are equal or out of order
\* come from the same millisecond.
IdsOrderedByTime ==
  \A p, q \in Procs :
    (op[p] = "generate" /\ op[q] = "generate") =>
      /\ userId[p] - req[p].now * 1000 \in 0..999
      /\ req[p].now < req[q].now => userId[p] < userId[q]
      /\ (p # q /\ userId[p] >= userId[q]) => req[p].now >= req[q].now

\* the largest offset in one millisecond and the smallest one in the next
LargestThenSmallest ==
  \E p, q \in Procs :
    /\ op[p] = "generate" /\ op[q] = "generate"
    /\ req[q].now = req[p].now + 1
    /\ req[p].random = 9999 /\ req[q].random = 0
    /\ userId[p] = req[p].now * 1000 + 999 /\ userId[q] = userId[p] + 1

\* C26: a createUser call that ended with an error status has committed no
\* row: its transaction did not commit and no users or sub-record row
\* written by it is in the store.
ErrorMeansNothingCommitted ==
  \A p \in Procs :
    (op[p] = "createUser" /\ pc[p] = "done" /\ status[p] >= 400)
    => /\ ~didCommit[p]
       /\ ~\E u \in users : u.by = p
       /\ \A t \in SubTables : ~\E r \in subs[t] : r.by = p

\* C27: the reservation loop of createUser ends with a candidate only by a
\* check that completed and found no row with it, and a check that fails
\* with a storage error aborts the write: the call goes to its rollback and
\* awaits no insert.
ReservedOnlyAfterCheck ==
  [][\A p \in Procs :
       (op[p] = "createUser" /\ pc[p] = "isIdExists") =>
         /\ pc'[p] = "users" => (~isIdExists(p, userId[p]) /\ err'[p] = NoErr)
         /\ err'[p] \in FailErrs => pc'[p] = "rollback"]_vars

\* C28: updateUser answers 200 only when its UPDATE statement changed a
\* users row with the id of the request: the row is there when the statement
\* runs and has the values of the patch afterwards.
SuccessMeansUpdated ==
  [][\A p \in Procs :
       (op[p] = "updateUser" /\ pc[p] = "patch_update" /\ status'[p] = 200)
       => /\ \E u \in users : u.id = req[p].id
          /\ \E v \in users' : v.id = req[p].id]_vars

\* C29: for every page and limit a list request carries, the effective page
\* is at least 1, the effective limit is in 1..100 and is 10 when the input
\* is absent, not a number, not positive or above 100, the offset is
\* (page - 1) * limit and not negative, and an answered request reports
\* these values and hasNext exactly when page is below totalPages.
ListPaginationBounded ==
  \A p \in Procs :
    op[p] = "listUsers" =>
      LET query == req[p]
          page == ListPageOf(query)
          limit == ListLimitOf(query)
          valid == query.limit \in DOMAIN Numerals /\ Numerals[query.limit] \in 1..100
      IN /\ page >= 1
         /\ limit \in 1..100
         /\ ~valid => limit = 10
         /\ valid => limit = Numerals[query.limit]
         /\ (page - 1) * limit >= 0
         /\ pc[p] = "list_count" => res[p].offset = (page - 1) * limit
         /\ (pc[p] = "done" /\ status[p] = 200) =>
              /\ res[p].page = page /\ res[p].limit = limit
              /\ res[p].offset = (page - 1) * limit
              /\ Cardinality(res[p].data) <= limit
              /\ res[p].hasNext <=> (res[p].page < res[p].totalPages)

\* a list request with page -2 and limit 1 was answered as page 1 of 2 with
\* a next page
ListedWithNextPage ==
  \E p \in Procs :
    /\ op[p] = "listUsers" /\ pc[p] = "done" /\ status[p] = 200
    /\ req[p].limit = "1" /\ req[p].page = "-2"
    /\ res[p].page = 1 /\ res[p].hasNext /\ res[p].totalPages = 2

====
